---------------------------- MODULE Spec2Model ----------------------------
(***************************************************************************)
(* Model of git-check-conflicts (src/src/lib.ts, src/src/main.ts).         *)
(*                                                                         *)
(* Text is a sequence of tokens.  A token is a chunk of characters that    *)
(* the program's regular expressions never cut in two: a white-space       *)
(* character, a keyword of git's output, a run of digits, a word of a      *)
(* path.  The string operations of the code (trim, split, match) are       *)
(* operators on such sequences.                                            *)
(***************************************************************************)
EXTENDS Integers, Sequences, FiniteSets, TLC

VARIABLES
  fnPc,      \* position of a library call under study: "idle", "ready", "done"
  fnIn,      \* its arguments and the answers git gives to its subcommands
  fnOut      \* its return value

fnVars == <<fnPc, fnIn, fnOut>>

VARIABLES
  pc,        \* position of main(): "idle" when no run is modelled
  args,      \* the parsed command line
  loc,       \* the local variables of main()
  result,    \* the ConflictCheckResult
  tempIndex, \* the TempIndex handle of main()
  scratch,   \* the file behind the handle and the index git keeps in it
  pending,   \* how the try block of main() ended, while its finally runs
  exit,      \* how the process ended
  hist,      \* what happened so far: create and cleanup calls
  cmdLog,    \* the git subcommands issued: fetch and all from merge-base on
  report     \* what `git merge-tree` writes for the three commits of the run

mainVars == <<pc, args, loc, result, tempIndex, scratch, pending, exit, hist,
              cmdLog, report>>

vars == <<fnPc, fnIn, fnOut, pc, args, loc, result, tempIndex, scratch, pending,
          exit, hist, cmdLog, report>>

(***************************************************************************)
(* Bounds                                                                  *)
(***************************************************************************)
MaxUnmerged == 2      \* unmerged paths listed by ls-files -u
MaxRenames  == 1      \* renames git lists for one side
MaxReportLines == 3   \* lines of a merge-tree report drawn from ReportLineKinds
MaxBranches == 2      \* local branches
MaxRemotes  == 2      \* configured remotes, where the ref helpers are studied alone
MaxCalls    == 4      \* method calls on one TempIndex object studied alone
MaxPad      == 20     \* lines between a section line and what its scan looks for

(***************************************************************************)
(* Program constants                                                       *)
(***************************************************************************)
MetadataSearchWindow       == 4     \* lib.ts 489: j < Math.min(i + 4, ...)
ConflictMarkerSearchWindow == 20    \* lib.ts 510: j < Math.min(i + 20, ...)

(***************************************************************************)
(* The state of a run of main()                                            *)
(***************************************************************************)
\* Strings are token sequences, "" is <<>>.
\* A JavaScript value that is a string, or a Promise of one:
Str(s) == [kind |-> "string", state |-> "", str |-> s]

Undefined == [kind |-> "undefined", state |-> "", str |-> <<>>]

\* null, where a string is expected
Null == <<"null">>

\* the result of parseArgs: its flags, and the first positional argument
NoArgs == [help |-> FALSE, version |-> FALSE, fetch |-> FALSE, diff |-> FALSE,
           json |-> FALSE, other |-> <<>>]

NoLocals == [currentRef |-> <<>>, otherRef |-> <<>>,
             oursCommit |-> <<>>, theirsCommit |-> <<>>,
             emptyTree |-> Undefined, mergeBase |-> <<>>,
             baseTree |-> <<>>, oursTree |-> <<>>, theirsTree |-> <<>>,
             unmergedFiles |-> <<>>, hasConflicts |-> FALSE,
             conflictingFiles |-> <<>>, k |-> 0]

\* main.ts 185-194; `built` is FALSE until the object exists
NoResult == [built |-> FALSE, current_ref |-> <<>>, other_ref |-> <<>>,
             ours_commit |-> <<>>, theirs_commit |-> <<>>, merge_base |-> Null,
             conflicts |-> FALSE, conflicted_files |-> <<>>, files |-> <<>>]

\* lib.ts 376: private path: string | null = null     (<<>> is null)
NewTempIndex == [path |-> <<>>]

NoScratch == [exists |-> FALSE, valid |-> FALSE, unmerged |-> <<>>]

NoPending == [kind |-> "none", code |-> 0]

Running == [how |-> "running", code |-> 0]

NoHistory == [created |-> FALSE, cleanups |-> 0, removeFailed |-> FALSE]

MainIdle ==
  /\ pc = "idle"
  /\ args = NoArgs
  /\ loc = NoLocals
  /\ result = NoResult
  /\ tempIndex = NewTempIndex
  /\ scratch = NoScratch
  /\ pending = NoPending
  /\ exit = Running
  /\ hist = NoHistory
  /\ cmdLog = <<>>
  /\ report = <<>>

(***************************************************************************)
(* Characters and tokens                                                   *)
(***************************************************************************)
SP  == " "
TAB == "\t"
NL  == "\n"
CR  == "\r"

\* the class \s of the regular expressions
IsWs(t) == t \in {SP, TAB, NL, CR}

\* the characters '.' does not match, and after which /m lets ^ match
IsLineTerminator(t) == t \in {NL, CR}

Min(a, b) == IF a < b THEN a ELSE b

SetMin(S) == CHOOSE x \in S : \A y \in S : x <= y

SetMax(S) == CHOOSE x \in S : \A y \in S : y <= x

\* the positions of s that hold no white space
NonWs(s) == { i \in 1..Len(s) : ~IsWs(s[i]) }

TrimStart(s) ==
  IF NonWs(s) = {} THEN <<>> ELSE SubSeq(s, SetMin(NonWs(s)), Len(s))

TrimEnd(s) ==
  IF NonWs(s) = {} THEN <<>> ELSE SubSeq(s, 1, SetMax(NonWs(s)))

\* String.prototype.trim
Trim(s) == TrimEnd(TrimStart(s))

\* runCmd decodes and trims what the subprocess wrote
RunCmdResult(code, rawOut, rawErr) ==
  [code |-> code, stdout |-> Trim(rawOut), stderr |-> Trim(rawErr)]

\* the k-th smallest element of a set of numbers
Kth(S, k) == CHOOSE x \in S : Cardinality({ y \in S : y < x }) = k - 1

\* String.prototype.split: the pieces of s that start at the positions in
\* `starts`, each running up to the position that `ends` gives for its start
Pieces(s, starts, ends) ==
  [k \in 1..Cardinality(starts) |->
     SubSeq(s, Kth(starts, k), ends[Kth(starts, k)])]

\* s.split(/\r?\n/): a piece ends before the next "\n", or "\r\n"
SplitLines(s) ==
  LET starts == {1} \cup { i + 1 : i \in { j \in 1..Len(s) : s[j] = NL } }
      end(a) == LET nls == { i \in a..Len(s) : s[i] = NL }
                IN  IF nls = {} THEN Len(s)
                    ELSE IF SetMin(nls) > a /\ s[SetMin(nls) - 1] = CR
                    THEN SetMin(nls) - 2
                    ELSE SetMin(nls) - 1
  IN  Pieces(s, starts, [a \in starts |-> end(a)])

\* s.split('\n')
SplitNL(s) ==
  LET starts == {1} \cup { i + 1 : i \in { j \in 1..Len(s) : s[j] = NL } }
      end(a) == LET nls == { i \in a..Len(s) : s[i] = NL }
                IN  IF nls = {} THEN Len(s) ELSE SetMin(nls) - 1
  IN  Pieces(s, starts, [a \in starts |-> end(a)])

\* s.split(/\s+/): a piece starts after each run of white space and ends
\* before the next one
SplitWs(s) ==
  LET starts == {1} \cup
                { i + 1 : i \in { j \in 1..Len(s) :
                                    IsWs(s[j]) /\ (j = Len(s) \/ ~IsWs(s[j + 1])) } }
      end(a) == LET ws == { i \in a..Len(s) : IsWs(s[i]) }
                IN  IF ws = {} THEN Len(s) ELSE SetMin(ws) - 1
  IN  Pieces(s, starts, [a \in starts |-> end(a)])

\* Array.prototype.filter(Boolean) on an array of strings
FilterNonEmpty(ss) == SelectSeq(ss, LAMBDA x : x # <<>>)

RECURSIVE DedupAcc(_, _, _)
DedupAcc(ss, i, acc) ==
  IF i > Len(ss) THEN acc
  ELSE IF \E k \in 1..Len(acc) : acc[k] = ss[i]
       THEN DedupAcc(ss, i + 1, acc)
       ELSE DedupAcc(ss, i + 1, Append(acc, ss[i]))

\* Array.from(new Set(ss)): first occurrences, in order
Dedup(ss) == DedupAcc(ss, 1, <<>>)

RECURSIVE JoinLines(_)
JoinLines(ls) ==
  IF ls = <<>> THEN <<>>
  ELSE IF Len(ls) = 1 THEN ls[1]
  ELSE ls[1] \o <<NL>> \o JoinLines(Tail(ls))

(***************************************************************************)
(* Paths: words separated by single spaces                                 *)
(***************************************************************************)
Paths == { <<"a.txt">>, <<"b.txt">>, <<"my", SP, "a.txt">> }

(***************************************************************************)
(* parseUnmergedFiles                                                      *)
(***************************************************************************)
\* the last white-space separated field of a line: parts.slice(-1)[0]
LastField(line) == LET parts == SplitWs(line) IN parts[Len(parts)]

parseUnmergedFilesUnfiltered(lsOutput) ==
  LET ls == SplitLines(lsOutput)
  IN  Dedup([k \in 1..Len(ls) |-> LastField(ls[k])])

\* lib.ts 119-129
parseUnmergedFiles(lsOutput) ==
  IF lsOutput = <<>> THEN <<>>
  ELSE LET ls == FilterNonEmpty(SplitLines(lsOutput))
       IN  Dedup([k \in 1..Len(ls) |-> LastField(ls[k])])

\* what `git ls-files -u --stage` writes for one index entry:
\* "<mode> <object> <stage>\t<path>\n"
LsFilesLine(path, stage) ==
  <<"100644", SP, "abc", SP, stage, TAB>> \o path \o <<NL>>

RECURSIVE LsFilesRaw(_)
LsFilesRaw(entries) ==
  IF entries = <<>> THEN <<>>
  ELSE LsFilesLine(Head(entries).path, Head(entries).stage)
         \o LsFilesRaw(Tail(entries))

Stages == {"1", "2", "3"}

\* the index entries of a list of unmerged paths: one per stage, path by path
RECURSIVE EntriesOf(_, _)
EntriesOf(ps, stagesOf) ==
  IF ps = <<>> THEN <<>>
  ELSE LET p  == Head(ps)
           st == stagesOf[p]
           es == SelectSeq(<<"1", "2", "3">>, LAMBDA s : s \in st)
       IN  [k \in 1..Len(es) |-> [path |-> p, stage |-> es[k]]]
             \o EntriesOf(Tail(ps), stagesOf)

Range(s) == { s[k] : k \in 1..Len(s) }

\* sequences of distinct elements of S, of length at most n
RECURSIVE DistinctSeqs(_, _)
DistinctSeqs(S, n) ==
  IF n = 0 THEN {<<>>}
  ELSE LET shorter == DistinctSeqs(S, n - 1)
       IN  shorter \cup
           UNION { { Append(s, x) : x \in S \ Range(s) } :
                   s \in { t \in shorter : Len(t) = n - 1 } }

(***************************************************************************)
(* Specification of parseUnmergedFiles: git lists the unmerged entries of  *)
(* a scratch index, runCmd trims the listing, the parser reads it.         *)
(***************************************************************************)
InitParseUnmerged ==
  /\ MainIdle
  /\ fnPc = "ready"
  /\ \E ps \in DistinctSeqs(Paths, MaxUnmerged) :
       \E stagesOf \in [Range(ps) -> (SUBSET Stages) \ {{}}] :
          fnIn = [fn |-> "parseUnmergedFiles", ps |-> ps, stagesOf |-> stagesOf]
  /\ fnOut = <<>>

ParseUnmergedCall ==
  /\ fnPc = "ready"
  /\ fnIn.fn = "parseUnmergedFiles"
  /\ LET lsRes == RunCmdResult(0, LsFilesRaw(EntriesOf(fnIn.ps, fnIn.stagesOf)), <<>>)
     IN  fnOut' = parseUnmergedFiles(lsRes.stdout)
  /\ fnPc' = "done"
  /\ UNCHANGED <<fnIn, mainVars>>

NextParseUnmerged == ParseUnmergedCall

SpecParseUnmerged == InitParseUnmerged /\ [][NextParseUnmerged]_vars

\* C4: every path listed as unmerged, in one or several stages, is returned
\* exactly once, unaltered, in order of first appearance.
C4_EachListedPathOnce ==
  (fnPc = "done" /\ fnIn.fn = "parseUnmergedFiles") => fnOut = fnIn.ps



(***************************************************************************)
(* getFileConflictDetail                                                   *)
(*                                                                         *)
(* The repository as the classifier sees it is a record w:                 *)
(*   w.ours, w.theirs   content of the candidate path at each commit,      *)
(*                      "none" when the commit has no such path            *)
(*   w.ourRen, w.theirRen   the renames merge-base -> commit, as git's     *)
(*                      rename detection lists them                        *)
(*   w.renDiffer        whether a renamed file differs from the other      *)
(*                      side's file of the old name                        *)
(*   w.lookup           how the two rename lookups end: "ok", git exits    *)
(*                      with 128, or the subprocess cannot be started      *)
(***************************************************************************)
Contents == {"none", "v1", "v2"}

RenameStatusToks == {"R100", "R075"}

\* `git diff -M --name-status --diff-filter=R`: "R<score>\t<old>\t<new>\n"
NameStatusLine(r) == <<r.score, TAB>> \o r.old \o <<TAB>> \o r.new \o <<NL>>

RECURSIVE NameStatusRaw(_)
NameStatusRaw(rs) ==
  IF rs = <<>> THEN <<>>
  ELSE NameStatusLine(Head(rs)) \o NameStatusRaw(Tail(rs))

\* the list of one side's renames, or an error when git cannot compute it
GitRenames(rs, lookup) ==
  IF lookup = "ok" THEN RunCmdResult(0, NameStatusRaw(rs), <<>>)
  ELSE RunCmdResult(128, <<>>, <<"fatal:", SP, "bad revision", NL>>)

\* a unified diff of two versions of a file
DiffBody == <<"@@", NL, "-x", NL, "+y", NL>>

\* `git diff -U3 --no-prefix -M <ours> <theirs> -- <file>`: the header tells
\* whether the path exists on the left (ours) and on the right (theirs)
GitPathDiff(oursContent, theirsContent) ==
  IF oursContent = theirsContent THEN RunCmdResult(0, <<>>, <<>>)
  ELSE IF theirsContent = "none"
       THEN RunCmdResult(0, <<"diff --git", NL, "deleted file mode", SP, "100644", NL>>
                              \o DiffBody, <<>>)
  ELSE IF oursContent = "none"
       THEN RunCmdResult(0, <<"diff --git", NL, "new file mode", SP, "100644", NL>>
                              \o DiffBody, <<>>)
  ELSE RunCmdResult(0, <<"diff --git", NL>> \o DiffBody, <<>>)

\* `git diff -U3 --no-prefix <commit>:<path> <commit>:<path>`: fails when one
\* of the two objects does not exist
GitBlobDiff(leftExists, rightExists, differ) ==
  IF ~leftExists \/ ~rightExists
  THEN RunCmdResult(128, <<>>, <<"fatal:", SP, "invalid object name", NL>>)
  ELSE IF differ THEN RunCmdResult(0, <<"diff --git", NL>> \o DiffBody, <<>>)
  ELSE RunCmdResult(0, <<>>, <<>>)

\* line.match(/^R\d+\s+(\S+)\s+(\S+)$/)
RenameLineMatch(line) ==
  LET parts == SplitWs(line)
  IN  IF /\ Len(parts) = 3
         /\ Len(parts[1]) = 1
         /\ parts[1][1] \in RenameStatusToks
         /\ parts[2] # <<>>
         /\ parts[3] # <<>>
      THEN [ok |-> TRUE, old |-> parts[2], new |-> parts[3]]
      ELSE [ok |-> FALSE, old |-> <<>>, new |-> <<>>]

FindRenameOfAnyPath(stdout, file) ==
  LET ms   == [k \in 1..Len(SplitNL(stdout)) |-> RenameLineMatch(SplitNL(stdout)[k])]
      hits == { k \in 1..Len(ms) : ms[k].ok }
  IN  IF hits = {} THEN [ok |-> FALSE, old |-> <<>>, new |-> <<>>]
      ELSE ms[CHOOSE k \in hits : \A j \in hits : k <= j]

\* stdout.split('\n').map(match).find(m => m && m[1] === file)
FindRename(stdout, file) ==
  LET ms   == [k \in 1..Len(SplitNL(stdout)) |-> RenameLineMatch(SplitNL(stdout)[k])]
      hits == { k \in 1..Len(ms) : ms[k].ok /\ ms[k].old = file }
  IN  IF hits = {} THEN [ok |-> FALSE, old |-> <<>>, new |-> <<>>]
      ELSE ms[CHOOSE k \in hits : \A j \in hits : k <= j]

\* stdout?.trim() || stderr?.trim() || undefined     (<<>> is undefined)
DiffOrUndefined(r) ==
  IF Trim(r.stdout) # <<>> THEN Trim(r.stdout) ELSE Trim(r.stderr)

Includes(text, tok) == \E k \in 1..Len(text) : text[k] = tok

NoRename == <<>>

PlainDiffStepAbsentIsDelete(file, w, calls) ==
  LET d    == GitPathDiff(w.ours, w.theirs)
      diff == DiffOrUndefined(d)
      type == IF diff = <<>> \/ Includes(diff, "deleted file mode")
              THEN "delete_modify"
              ELSE IF Includes(diff, "new file mode") THEN "modify_delete"
              ELSE "content"
  IN  [conflict_type |-> type,
       message |-> IF type = "content" THEN <<>> ELSE <<type>>,
       rename |-> NoRename,
       diff |-> diff,
       raised |-> FALSE,
       calls |-> Append(calls, [cmd |-> "diff", left |-> <<"ours">>,
                                right |-> <<"theirs">>, path |-> file])]

\* the step taken when no rename was detected: lib.ts 315-341
PlainDiffStep(file, w, calls) ==
  LET d    == GitPathDiff(w.ours, w.theirs)
      diff == DiffOrUndefined(d)
      type == IF diff # <<>> /\ (Includes(diff, "deleted file mode")
                                 \/ Includes(diff, "new file mode"))
              THEN IF Includes(diff, "deleted file mode")
                   THEN "delete_modify" ELSE "modify_delete"
              ELSE "content"
  IN  [conflict_type |-> type,
       message |-> IF type = "content" THEN <<>> ELSE <<type>>,
       rename |-> NoRename,
       diff |-> diff,
       raised |-> FALSE,
       calls |-> Append(calls, [cmd |-> "diff", left |-> <<"ours">>,
                                right |-> <<"theirs">>, path |-> file])]

\* lib.ts 225-349.  The record returned, and in `calls` the subcommands issued.
getFileConflictDetail(file, mergeBase, w) ==
  LET ourM   == FindRename(GitRenames(w.ourRen, w.lookup).stdout, file)
      theirM == FindRename(GitRenames(w.theirRen, w.lookup).stdout, file)
      lists  == << [cmd |-> "renames", side |-> "ours"],
                   [cmd |-> "renames", side |-> "theirs"] >>
  IN  IF mergeBase # <<>> /\ w.lookup = "spawn failed"
      \* runCmd raises at lib.ts 239 and nothing in the function catches it
      THEN [conflict_type |-> "content", message |-> <<>>, rename |-> NoRename,
            diff |-> <<>>, raised |-> TRUE,
            calls |-> << [cmd |-> "renames", side |-> "ours"] >>]
      ELSE IF mergeBase # <<>> /\ ourM.ok
      THEN LET d == GitBlobDiff(TRUE, w.theirs # "none", w.renDiffer)
           IN  [conflict_type |-> "rename_modify",
                message |-> <<"rename_modify", ourM.old, ourM.new>>,
                rename |-> << [old_path |-> ourM.old, new_path |-> ourM.new,
                               side |-> "ours"] >>,
                diff |-> DiffOrUndefined(d),
                raised |-> FALSE,
                calls |-> Append(lists, [cmd |-> "blobdiff",
                                         left |-> <<"ours", ourM.new>>,
                                         right |-> <<"theirs", ourM.old>>])]
      ELSE IF mergeBase # <<>> /\ theirM.ok
      THEN LET d == GitBlobDiff(w.ours # "none", TRUE, w.renDiffer)
           IN  [conflict_type |-> "modify_rename",
                message |-> <<"modify_rename", theirM.old, theirM.new>>,
                rename |-> << [old_path |-> theirM.old, new_path |-> theirM.new,
                               side |-> "theirs"] >>,
                diff |-> DiffOrUndefined(d),
                raised |-> FALSE,
                calls |-> Append(lists, [cmd |-> "blobdiff",
                                         left |-> <<"ours", theirM.old>>,
                                         right |-> <<"theirs", theirM.new>>])]
      ELSE PlainDiffStep(file, w, IF mergeBase # <<>> THEN lists ELSE <<>>)

\* the renames git can list for one side
Renames ==
  { [score |-> "R100", old |-> o, new |-> n] : o \in Paths, n \in Paths } \cup
  { [score |-> "R075", old |-> <<"a.txt">>, new |-> <<"b.txt">>] }

\* rename lists: no path is renamed twice, none is both a source and a target
RenameLists ==
  { rs \in DistinctSeqs({ r \in Renames : r.old # r.new }, MaxRenames) :
      \A i, j \in 1..Len(rs) :
         /\ (i # j => rs[i].old # rs[j].old /\ rs[i].new # rs[j].new)
         /\ rs[i].old # rs[j].new }

\* the worlds in which `file` is a candidate: a side that renamed the path
\* away no longer has it, a side that renamed something to it has it
Worlds(file) ==
  { w \in [ours : Contents, theirs : Contents,
           ourRen : RenameLists, theirRen : RenameLists, renDiffer : BOOLEAN,
           lookup : {"ok", "exit 128", "spawn failed"}] :
      /\ \A k \in 1..Len(w.ourRen) :
            /\ (w.ourRen[k].old = file => w.ours = "none")
            /\ (w.ourRen[k].new = file => w.ours # "none")
      /\ \A k \in 1..Len(w.theirRen) :
            /\ (w.theirRen[k].old = file => w.theirs = "none")
            /\ (w.theirRen[k].new = file => w.theirs # "none") }

InitDetail ==
  /\ MainIdle
  /\ fnPc = "ready"
  /\ \E file \in Paths, mb \in {<<>>, <<"c0">>} :
       \E w \in Worlds(file) :
          fnIn = [fn |-> "getFileConflictDetail", file |-> file,
                  mergeBase |-> mb, w |-> w]
  /\ fnOut = <<>>

DetailCall ==
  /\ fnPc = "ready"
  /\ fnIn.fn = "getFileConflictDetail"
  /\ fnOut' = getFileConflictDetail(fnIn.file, fnIn.mergeBase, fnIn.w)
  /\ fnPc' = "done"
  /\ UNCHANGED <<fnIn, mainVars>>

NextDetail == DetailCall

SpecDetail == InitDetail /\ [][NextDetail]_vars

DetailDone == fnPc = "done" /\ fnIn.fn = "getFileConflictDetail"

\* whether a side lists a rename whose old name is the candidate path
ListsRenameOf(rs, file) == \E k \in 1..Len(rs) : rs[k].old = file

RenameOf(rs, file) == rs[CHOOSE k \in 1..Len(rs) : rs[k].old = file]

\* C5: with no rename on either side, a path ours deleted and theirs still has
\* is classified delete_modify, and a path ours still has and theirs deleted
\* is classified modify_delete.
C5_DeleteModifyBySide ==
  (/\ DetailDone
   /\ fnIn.w.lookup = "ok"
   /\ ~ListsRenameOf(fnIn.w.ourRen, fnIn.file)
   /\ ~ListsRenameOf(fnIn.w.theirRen, fnIn.file))
  => /\ (fnIn.w.ours = "none" /\ fnIn.w.theirs # "none"
           => fnOut.conflict_type = "delete_modify")
     /\ (fnIn.w.ours # "none" /\ fnIn.w.theirs = "none"
           => fnOut.conflict_type = "modify_delete")

\* C6: with a merge base and exactly one side listing a rename of the
\* candidate path, the renaming side decides: ours gives rename_modify, side
\* "ours", and a diff of ours:new against theirs:old; theirs gives
\* modify_rename, side "theirs", and a diff of ours:old against theirs:new.
C6_RenameByRenamingSide ==
  (DetailDone /\ fnIn.mergeBase # <<>> /\ fnIn.w.lookup = "ok")
  => /\ (/\ ListsRenameOf(fnIn.w.ourRen, fnIn.file)
         /\ ~ListsRenameOf(fnIn.w.theirRen, fnIn.file))
        => LET r == RenameOf(fnIn.w.ourRen, fnIn.file)
           IN  /\ fnOut.conflict_type = "rename_modify"
               /\ fnOut.rename = << [old_path |-> r.old, new_path |-> r.new,
                                     side |-> "ours"] >>
               /\ fnOut.calls[Len(fnOut.calls)] =
                    [cmd |-> "blobdiff", left |-> <<"ours", r.new>>,
                     right |-> <<"theirs", r.old>>]
     /\ (/\ ~ListsRenameOf(fnIn.w.ourRen, fnIn.file)
         /\ ListsRenameOf(fnIn.w.theirRen, fnIn.file))
        => LET r == RenameOf(fnIn.w.theirRen, fnIn.file)
           IN  /\ fnOut.conflict_type = "modify_rename"
               /\ fnOut.rename = << [old_path |-> r.old, new_path |-> r.new,
                                     side |-> "theirs"] >>
               /\ fnOut.calls[Len(fnOut.calls)] =
                    [cmd |-> "blobdiff", left |-> <<"ours", r.old>>,
                     right |-> <<"theirs", r.new>>]

\* C7: when both sides list a rename of the candidate path no rename
\* classification is made: the plain diff step decides and no rename is set.
C7_BothRenamedFallsThrough ==
  (/\ DetailDone
   /\ fnIn.mergeBase # <<>>
   /\ ListsRenameOf(fnIn.w.ourRen, fnIn.file)
   /\ ListsRenameOf(fnIn.w.theirRen, fnIn.file))
  => /\ fnOut.conflict_type \in {"content", "delete_modify", "modify_delete"}
     /\ fnOut.rename = NoRename

(***************************************************************************)
(* The merge-tree fallback: checkConflictsWithMergeTree and                *)
(* getConflictingFilesFromMergeTree                                        *)
(***************************************************************************)
MARK == "<<<<<<<"

HeaderToks == {"removed in local", "removed in remote",
               "added in local", "added in remote", "changed in both"}

\* tokens matched by /^(removed in|added in|changed in|merged|result)/
SectionToks == HeaderToks \cup {"merged", "result", "changed in"}

SideToks  == {"base", "our", "their"}
DigitToks == {"100644"}
HexToks   == {"100644", "abc"}

\* /<<<<<<< /m.test(stdout): the marker anywhere in the text
RECURSIVE MarkerTest(_, _)
MarkerTest(s, i) ==
  IF i >= Len(s) THEN FALSE
  ELSE IF s[i] = MARK /\ s[i + 1] = SP THEN TRUE
  ELSE MarkerTest(s, i + 1)

\* /^(removed in (local|remote)|added in (local|remote)|changed in both)/m:
\* with the m flag ^ matches at the start and after every line terminator
RECURSIVE HeaderTest(_, _)
HeaderTest(s, i) ==
  IF i > Len(s) THEN FALSE
  ELSE IF s[i] \in HeaderToks /\ (i = 1 \/ IsLineTerminator(s[i - 1])) THEN TRUE
  ELSE HeaderTest(s, i + 1)

CheckConflictsMarkersOnly(stdout) == MarkerTest(stdout, 1)

\* lib.ts 451-462, on the stdout of `git merge-tree`
checkConflictsWithMergeTree(stdout) ==
  IF MarkerTest(stdout, 1) THEN TRUE
  ELSE IF HeaderTest(stdout, 1) THEN TRUE
  ELSE FALSE

\* first index >= i of a token that is not white space, Len + 1 if none
RECURSIVE SkipWs(_, _)
SkipWs(line, i) ==
  IF i > Len(line) THEN Len(line) + 1
  ELSE IF IsWs(line[i]) THEN SkipWs(line, i + 1)
  ELSE i

NoMatch == [ok |-> FALSE, name |-> <<>>]

\* the tail \s+\d+\s+[a-f0-9]+\s+(.+)$ of both metadata patterns, from index p
MatchModeHashPath(line, p) ==
  LET n == Len(line)
      a == SkipWs(line, p)
  IN  IF ~(a > p /\ a <= n /\ line[a] \in DigitToks) THEN NoMatch
      ELSE LET b == SkipWs(line, a + 1)
           IN  IF ~(b > a + 1 /\ b <= n /\ line[b] \in HexToks) THEN NoMatch
               ELSE LET c == SkipWs(line, b + 1)
                    IN  IF c <= b + 1 THEN NoMatch
                        ELSE IF c <= n
                        THEN IF \E k \in c..n : IsLineTerminator(line[k])
                             THEN NoMatch
                             ELSE [ok |-> TRUE, name |-> SubSeq(line, c, n)]
                        \* the line ends in white space: \s+ gives one back to (.+)
                        ELSE IF c - (b + 1) >= 2 /\ ~IsLineTerminator(line[n])
                             THEN [ok |-> TRUE, name |-> <<line[n]>>]
                             ELSE NoMatch

\* lines[j].match(/^\s+(base|our|their)\s+\d+\s+[a-f0-9]+\s+(.+)$/)
MetaMatch(line) ==
  LET a == SkipWs(line, 1)
  IN  IF a > 1 /\ a <= Len(line) /\ line[a] \in SideToks
      THEN MatchModeHashPath(line, a + 1)
      ELSE NoMatch

MergedMatchWithoutMode(line) ==
  IF Len(line) >= 3 /\ line[1] \in {"merged", "result"}
  THEN [ok |-> TRUE, name |-> SubSeq(line, 3, Len(line))]
  ELSE NoMatch

\* line.match(/^(merged|result)\s+\d+\s+[a-f0-9]+\s+(.+)$/)
MergedMatch(line) ==
  IF line # <<>> /\ line[1] \in {"merged", "result"}
  THEN MatchModeHashPath(line, 2)
  ELSE NoMatch

PushAlways(acc, name) == Append(acc, name)

PushNew(acc, name) ==
  IF \E k \in 1..Len(acc) : acc[k] = name THEN acc ELSE Append(acc, name)

\* the inner loop of lib.ts 489-497, over lines j..hi
RECURSIVE ScanMeta(_, _, _, _)
ScanMeta(lines, j, hi, acc) ==
  IF j > hi THEN acc
  ELSE LET m == MetaMatch(lines[j])
       IN  ScanMeta(lines, j + 1, hi, IF m.ok THEN PushNew(acc, m.name) ELSE acc)

\* the inner loop of lib.ts 510-519, over lines j..hi
RECURSIVE ScanMarkers(_, _, _)
ScanMarkers(lines, j, hi) ==
  IF j > hi THEN FALSE
  ELSE IF Len(lines[j]) >= 2 /\ lines[j][1] = MARK /\ lines[j][2] = SP THEN TRUE
  ELSE IF lines[j] # <<>> /\ lines[j][1] \in SectionToks THEN FALSE
  ELSE ScanMarkers(lines, j + 1, hi)

ParseReportLineUnbounded(lines, i, acc) ==
  LET line == lines[i]
      n    == Len(lines)
      acc1 == IF line # <<>> /\ line[1] \in HeaderToks
              THEN ScanMeta(lines, i + 1, n, acc)
              ELSE acc
      m    == MergedMatch(line)
  IN  IF m.ok /\ ScanMarkers(lines, i + 1, n)
      THEN PushNew(acc1, m.name)
      ELSE acc1

\* one turn of the outer loop, lib.ts 483-524, at line i (counted from 1)
ParseReportLine(lines, i, acc) ==
  LET line == lines[i]
      n    == Len(lines)
      acc1 == IF line # <<>> /\ line[1] \in HeaderToks
              THEN ScanMeta(lines, i + 1, Min(i + MetadataSearchWindow - 1, n), acc)
              ELSE acc
      m    == MergedMatch(line)
  IN  IF m.ok /\ ScanMarkers(lines, i + 1, Min(i + ConflictMarkerSearchWindow - 1, n))
      THEN PushNew(acc1, m.name)
      ELSE acc1

RECURSIVE ParseReport(_, _, _)
ParseReport(lines, i, acc) ==
  IF i > Len(lines) THEN acc
  ELSE ParseReport(lines, i + 1, ParseReportLine(lines, i, acc))

\* lib.ts 479-527, on the stdout of `git merge-tree`
getConflictingFilesFromMergeTree(stdout) ==
  ParseReport(SplitLines(stdout), 1, <<>>)

MetaLine(side, path) == <<SP, SP, side, SP, "100644", SP, "abc", SP>> \o path

\* the lines a report is made of
ReportLineKinds ==
  { <<h>> : h \in HeaderToks } \cup
  { MetaLine("base", <<"a.txt">>),
    MetaLine("their", <<"my", SP, "a.txt">>),
    <<"merged", SP, "100644", SP, "abc", SP, "b.txt">>,
    <<"result", SP, "b.txt">>,
    <<MARK, SP, ".our">>,
    <<"+", MARK, SP, ".our">>,
    <<MARK>>,
    <<"@@">>,
    <<SP, "removed in local">>,
    <<"x", CR, "added in remote">>,
    <<>> }

RECURSIVE SeqsUpTo(_, _)
SeqsUpTo(S, n) ==
  IF n = 0 THEN {<<>>}
  ELSE LET shorter == SeqsUpTo(S, n - 1)
       IN  shorter \cup { Append(s, x) : s \in { t \in shorter : Len(t) = n - 1 },
                                          x \in S }

\* what git writes: every line ends with a newline
RECURSIVE ReportRaw(_)
ReportRaw(ls) ==
  IF ls = <<>> THEN <<>> ELSE Head(ls) \o <<NL>> \o ReportRaw(Tail(ls))

\* longer reports: a section line, up to MaxPad lines of a diff, and then a
\* metadata line or a marker; and a header whose metadata line comes after a
\* merged line with a marker
LongReports ==
  { <<first>> \o [k \in 1..n |-> <<"@@">>] \o <<last>> :
      first \in { <<"changed in both">>,
                  <<"merged", SP, "100644", SP, "abc", SP, "b.txt">> },
      n \in 0..MaxPad,
      last \in { MetaLine("our", <<"a.txt">>), <<MARK, SP, ".our">> } }
  \cup
  { << <<"changed in both">>,
       <<"merged", SP, "100644", SP, "abc", SP, "b.txt">>,
       MetaLine("our", <<"a.txt">>),
       <<MARK, SP, ".our">> >> }

InitMergeTree ==
  /\ MainIdle
  /\ fnPc = "ready"
  /\ \E ls \in SeqsUpTo(ReportLineKinds, MaxReportLines) \cup LongReports :
        fnIn = [fn |-> "mergeTree", stdout |-> RunCmdResult(0, ReportRaw(ls), <<>>).stdout]
  /\ fnOut = [conflicts |-> FALSE, files |-> <<>>]

MergeTreeCheckCall ==
  /\ fnPc = "ready"
  /\ fnIn.fn = "mergeTree"
  /\ fnOut' = [fnOut EXCEPT !.conflicts = checkConflictsWithMergeTree(fnIn.stdout)]
  /\ fnPc' = "checked"
  /\ UNCHANGED <<fnIn, mainVars>>

MergeTreeFilesCall ==
  /\ fnPc = "checked"
  /\ fnIn.fn = "mergeTree"
  /\ fnOut' = [fnOut EXCEPT !.files = getConflictingFilesFromMergeTree(fnIn.stdout)]
  /\ fnPc' = "done"
  /\ UNCHANGED <<fnIn, mainVars>>

NextMergeTree == MergeTreeCheckCall \/ MergeTreeFilesCall

SpecMergeTree == InitMergeTree /\ [][NextMergeTree]_vars

\* a line of the report begins with one of the five structural headers; a
\* line begins at the start of the text and after each line terminator
HasStructuralLine(text) ==
  \E i \in 1..Len(text) :
     /\ text[i] \in HeaderToks
     /\ (i = 1 \/ text[i - 1] \in {NL, CR})

\* the report contains "<<<<<<< " somewhere
HasMarkerAnywhere(text) ==
  \E i \in 1..(Len(text) - 1) : text[i] = MARK /\ text[i + 1] = SP

\* C2: checkConflictsWithMergeTree returns true when the report has a line
\* beginning with a structural header, also without any marker, and when it
\* has the marker "<<<<<<< " anywhere; it returns false only when the report
\* has neither.
C2_TriggersYieldTrue ==
  (fnIn.fn = "mergeTree" /\ fnPc \in {"checked", "done"})
  => fnOut.conflicts =
       (HasStructuralLine(fnIn.stdout) \/ HasMarkerAnywhere(fnIn.stdout))

\* a report with a structural header and no marker has been judged
C2_Witness ==
  /\ fnIn.fn = "mergeTree"
  /\ fnPc = "checked"
  /\ HasStructuralLine(fnIn.stdout)
  /\ ~HasMarkerAnywhere(fnIn.stdout)
  /\ fnOut.conflicts = TRUE

(***************************************************************************)
(* Refs and commits: lib.ts 32-117, 406-414, 547-558                       *)
(*                                                                         *)
(* A ref name is the sequence of its path components: "origin/main" is     *)
(* <<"origin", "main">>.  The repository the ref helpers see is a record   *)
(*   repo.remotes   the configured remotes, as `git remote` lists them     *)
(*   repo.head      for each remote the branch its HEAD points to, or <<>> *)
(*   repo.heads     the local branches, most recent commit first           *)
(***************************************************************************)
RemoteNames == {"origin"}

BranchNames == {"main", "master", "feat"}

Commits == { <<"c1">>, <<"c2">> }

\* the well-known id of the empty tree, lib.ts 413
EMPTY_TREE == <<"4b825dc">>

\* what String(promise) gives
ObjectPromise == <<"[object Promise]">>

TreeOf(commit) == <<"tree">> \o commit

GitOk(out) == RunCmdResult(0, out \o <<NL>>, <<>>)

GitFailed == RunCmdResult(128, <<>>, <<"fatal:", SP, "failed", NL>>)

RECURSIVE LinesOf(_)
LinesOf(names) ==
  IF names = <<>> THEN <<>> ELSE <<Head(names), NL>> \o LinesOf(Tail(names))

\* `git remote`
GitRemote(repo) == RunCmdResult(0, LinesOf(repo.remotes), <<>>)

\* `git symbolic-ref --quiet refs/remotes/<r>/HEAD`
GitSymbolicRef(repo, ref) ==
  IF /\ Len(ref) = 4 /\ ref[1] = "refs" /\ ref[2] = "remotes" /\ ref[4] = "HEAD"
     /\ ref[3] \in DOMAIN repo.head
     /\ repo.head[ref[3]] # <<>>
  THEN GitOk(<<"refs", "remotes", ref[3]>> \o repo.head[ref[3]])
  ELSE RunCmdResult(1, <<>>, <<>>)

\* `git show-ref --verify refs/heads/<branch>`
GitShowRef(repo, branch) ==
  IF Len(branch) = 1 /\ branch[1] \in Range(repo.heads)
  THEN GitOk(<<"abc", SP, "refs", "heads">> \o branch)
  ELSE GitFailed

\* `git for-each-ref --sort=-committerdate --format=%(refname:short) refs/heads`
GitForEachRef(repo) == RunCmdResult(0, LinesOf(repo.heads), <<>>)

\* str.replace(prefix, "") where the prefix can only match at the start
ReplacePrefix(str, prefix) ==
  IF Len(str) >= Len(prefix) /\ SubSeq(str, 1, Len(prefix)) = prefix
  THEN SubSeq(str, Len(prefix) + 1, Len(str))
  ELSE str

RemoteRef(remote, ref) == remote \o ref

\* lib.ts 43-64: the loop over the remotes; <<>> when none has a HEAD
RECURSIVE DetectFromRemotes(_, _)
DetectFromRemotes(remotes, repo) ==
  IF remotes = <<>> THEN <<>>
  ELSE LET r   == Head(remotes)
           sym == GitSymbolicRef(repo, <<"refs", "remotes">> \o r \o <<"HEAD">>)
       IN  IF sym.code = 0 /\ sym.stdout # <<>>
           THEN LET localBranch ==
                      ReplacePrefix(sym.stdout, <<"refs", "remotes">> \o r)
                IN  IF GitShowRef(repo, localBranch).code = 0
                    THEN localBranch
                    ELSE RemoteRef(r, localBranch)
           ELSE DetectFromRemotes(Tail(remotes), repo)

RECURSIVE FilterOut(_, _)
FilterOut(lines, x) ==
  IF lines = <<>> THEN <<>>
  ELSE IF Head(lines) = x THEN FilterOut(Tail(lines), x)
  ELSE <<Head(lines)>> \o FilterOut(Tail(lines), x)

detectDefaultBranchMasterFirst(currentRef, repo) ==
  LET remotesRes == GitRemote(repo)
      remotes    == IF remotesRes.code = 0 /\ remotesRes.stdout # <<>>
                    THEN FilterNonEmpty(SplitLines(remotesRes.stdout))
                    ELSE <<>>
      fromRemote == DetectFromRemotes(remotes, repo)
      recent     == GitForEachRef(repo)
      candidates == IF recent.code = 0 /\ recent.stdout # <<>>
                    THEN FilterOut(FilterNonEmpty(SplitLines(recent.stdout)),
                                   currentRef)
                    ELSE <<>>
  IN  IF fromRemote # <<>> THEN [ok |-> TRUE, ref |-> fromRemote]
      ELSE IF GitShowRef(repo, <<"master">>).code = 0
      THEN [ok |-> TRUE, ref |-> <<"master">>]
      ELSE IF GitShowRef(repo, <<"main">>).code = 0
      THEN [ok |-> TRUE, ref |-> <<"main">>]
      ELSE IF candidates # <<>> THEN [ok |-> TRUE, ref |-> candidates[1]]
      ELSE [ok |-> FALSE, ref |-> <<>>]

\* lib.ts 40-88
detectDefaultBranch(currentRef, repo) ==
  LET remotesRes == GitRemote(repo)
      remotes    == IF remotesRes.code = 0 /\ remotesRes.stdout # <<>>
                    THEN FilterNonEmpty(SplitLines(remotesRes.stdout))
                    ELSE <<>>
      fromRemote == DetectFromRemotes(remotes, repo)
      recent     == GitForEachRef(repo)
      candidates == IF recent.code = 0 /\ recent.stdout # <<>>
                    THEN FilterOut(FilterNonEmpty(SplitLines(recent.stdout)),
                                   currentRef)
                    ELSE <<>>
  IN  IF fromRemote # <<>> THEN [ok |-> TRUE, ref |-> fromRemote]
      ELSE IF GitShowRef(repo, <<"main">>).code = 0
      THEN [ok |-> TRUE, ref |-> <<"main">>]
      ELSE IF GitShowRef(repo, <<"master">>).code = 0
      THEN [ok |-> TRUE, ref |-> <<"master">>]
      ELSE IF candidates # <<>> THEN [ok |-> TRUE, ref |-> candidates[1]]
      ELSE [ok |-> FALSE, ref |-> <<>>]

\* lib.ts 32-38, given git's answers to its two subcommands
getCurrentRef(symRes, shortRes) ==
  IF symRes.code = 0 /\ symRes.stdout # <<>>
  THEN [ok |-> TRUE, ref |-> symRes.stdout]
  ELSE IF shortRes.code = 0 /\ shortRes.stdout # <<>>
  THEN [ok |-> TRUE, ref |-> shortRes.stdout]
  ELSE [ok |-> FALSE, ref |-> <<>>]

\* `git rev-parse --verify <ref>^{commit}`; verify maps a ref name to the
\* commit it names, or to <<>>
GitRevParseVerify(verify, ref) ==
  IF ref \in DOMAIN verify /\ verify[ref] # <<>> THEN GitOk(verify[ref])
  ELSE GitFailed

\* lib.ts 96-108: the loop over the remotes
RECURSIVE ResolveFromRemotes(_, _, _)
ResolveFromRemotes(remotes, ref, verify) ==
  IF remotes = <<>> THEN [ok |-> FALSE, commit |-> <<>>, resolvedRef |-> <<>>]
  ELSE LET cand == RemoteRef(Head(remotes), ref)
           s    == GitRevParseVerify(verify, cand)
       IN  IF s.code = 0 /\ s.stdout # <<>>
           THEN [ok |-> TRUE, commit |-> s.stdout, resolvedRef |-> cand]
           ELSE ResolveFromRemotes(Tail(remotes), ref, verify)

resolveCommitRemotesFirst(ref, remoteList, verify) ==
  LET r       == GitRevParseVerify(verify, ref)
      remotes == FilterNonEmpty(SplitLines(
                   RunCmdResult(0, LinesOf(remoteList), <<>>).stdout))
      viaRemote == ResolveFromRemotes(remotes, ref, verify)
  IN  IF viaRemote.ok THEN viaRemote
      ELSE IF r.code = 0 /\ r.stdout # <<>>
      THEN [ok |-> TRUE, commit |-> r.stdout, resolvedRef |-> ref]
      ELSE viaRemote

\* lib.ts 90-110
resolveCommit(ref, remoteList, verify) ==
  LET r       == GitRevParseVerify(verify, ref)
      remotes == FilterNonEmpty(SplitLines(
                   RunCmdResult(0, LinesOf(remoteList), <<>>).stdout))
  IN  IF r.code = 0 /\ r.stdout # <<>>
      THEN [ok |-> TRUE, commit |-> r.stdout, resolvedRef |-> ref]
      ELSE ResolveFromRemotes(remotes, ref, verify)

\* lib.ts 112-117, given git's answer to rev-parse <rev>^{tree}
revToTree(rev, emptyTree, r) ==
  IF rev = <<>> THEN emptyTree
  ELSE IF r.code = 0 /\ r.stdout # <<>> THEN Str(r.stdout)
  ELSE emptyTree

\* lib.ts 406-414, given git's answer to hash-object
getEmptyTreeHash(r) ==
  IF r.code = 0 /\ r.stdout # <<>> THEN r.stdout ELSE EMPTY_TREE

\* what `await v` gives for a string or a fulfilled Promise of one
Await(v) == v.str

\* a || b  for strings and Promises: an object is truthy, "" is not
JsOr(a, b) == IF a.kind = "string" /\ a.str = <<>> THEN b ELSE a

\* Deno.Command stringifies its arguments
ArgString(v) == IF v.kind = "promise" THEN ObjectPromise ELSE v.str

\* what `git remote` may list
RemoteLists == {<<>>} \cup { <<r>> : r \in RemoteNames }

BranchLists == DistinctSeqs(BranchNames, MaxBranches)

Repos ==
  { [remotes |-> rs, head |-> h, heads |-> hs] :
      rs \in RemoteLists, hs \in BranchLists,
      h \in [RemoteNames -> {<<>>, <<"main">>, <<"feat">>}] }

(***************************************************************************)
(* main(): main.ts 95-338, and the entry point, main.ts 340-353            *)
(*                                                                         *)
(* One action per step between two awaits.  Every subcommand is a spawn    *)
(* that can itself fail, in which case runCmd raises (lib.ts 8-23).        *)
(***************************************************************************)
FnIdle == fnPc = "idle" /\ fnIn = <<>> /\ fnOut = <<>>

ParsedArgs ==
  { [NoArgs EXCEPT !.help = TRUE], [NoArgs EXCEPT !.version = TRUE] } \cup
  { a \in [help : {FALSE}, version : {FALSE}, fetch : BOOLEAN, diff : BOOLEAN,
            json : BOOLEAN, other : {<<>>, <<"main">>, <<"feat">>}] :
      a.fetch => (~a.diff /\ ~a.json) }

Init ==
  /\ FnIdle
  /\ pc = "start"
  /\ args \in ParsedArgs
  /\ loc = NoLocals
  /\ result = NoResult
  /\ tempIndex = NewTempIndex
  /\ scratch = NoScratch
  /\ pending = NoPending
  /\ exit = Running
  /\ hist = NoHistory
  /\ cmdLog = <<>>
  /\ report = <<>>

\* main.ts 340-353: the exit code of the process, from how main() ended
EntryPoint(how, code) ==
  IF how = "returned" THEN code
  ELSE IF how = "GitError" THEN code
  ELSE 2

\* main() ends: it returns `code`, or raises a GitError, or another Error
Finish(how, code) ==
  /\ pc' = "done"
  /\ exit' = [how |-> how, code |-> EntryPoint(how, code)]

\* an unhandled promise rejection ends the process with code 1
Crash ==
  /\ pc' = "done"
  /\ exit' = [how |-> "crashed", code |-> 1]

SpawnOutcomes == {"spawned", "spawn failed"}

\* main.ts 97-116
MainParseArgs ==
  /\ pc = "start"
  /\ IF args.help \/ args.version
     THEN Finish("returned", 0)
     ELSE pc' = "isGitRepository" /\ UNCHANGED exit
  /\ UNCHANGED <<fnVars, args, loc, result, tempIndex, scratch, pending, hist,
                 cmdLog, report>>

\* lib.ts 547-550, given git's answer to rev-parse --git-dir
isGitRepository(r) == r.code = 0

\* main.ts 119-121
MainIsGitRepository ==
  /\ pc = "isGitRepository"
  /\ \E o \in SpawnOutcomes, r \in {GitOk(<<".git">>), GitFailed} :
       IF o = "spawn failed" THEN Finish("Error", 2)
       ELSE IF ~isGitRepository(r) THEN Finish("GitError", 2)
       ELSE /\ pc' = IF args.fetch THEN "fetch" ELSE "getCurrentRef"
            /\ UNCHANGED exit
  /\ UNCHANGED <<fnVars, args, loc, result, tempIndex, scratch, pending, hist,
                 cmdLog, report>>

Logged(cmd, argv, index) == [cmd |-> cmd, argv |-> argv, index |-> index]

\* lib.ts 552-558, given git's answer to fetch --all
fetchAll(r) == [success |-> r.code = 0]

\* main.ts 124-132: a failed fetch is a warning
MainFetch ==
  /\ pc = "fetch"
  /\ \E o \in SpawnOutcomes, r \in {GitOk(<<>>), GitFailed} :
       IF o = "spawn failed" THEN Finish("Error", 2) /\ UNCHANGED cmdLog
       ELSE /\ fetchAll(r).success \in BOOLEAN
            /\ cmdLog' = Append(cmdLog, Logged("fetch", <<"--all">>, <<>>))
            /\ pc' = "getCurrentRef"
            /\ UNCHANGED exit
  /\ UNCHANGED <<fnVars, args, loc, result, tempIndex, scratch, pending, hist,
                 report>>

\* main.ts 135
MainGetCurrentRef ==
  /\ pc = "getCurrentRef"
  /\ \E o \in SpawnOutcomes,
        symRes \in {GitOk(<<"main">>), RunCmdResult(1, <<>>, <<>>)},
        shortRes \in {GitOk(<<"abc1234">>), GitFailed} :
       LET cur == getCurrentRef(symRes, shortRes)
       IN  IF o = "spawn failed" THEN Finish("Error", 2) /\ UNCHANGED loc
           ELSE IF ~cur.ok THEN Finish("GitError", 2) /\ UNCHANGED loc
           ELSE /\ loc' = [loc EXCEPT !.currentRef = cur.ref]
                /\ pc' = "detectDefaultBranch"
                /\ UNCHANGED exit
  /\ UNCHANGED <<fnVars, args, result, tempIndex, scratch, pending, hist,
                 cmdLog, report>>

\* main.ts 138-156: otherRef from the argument or by detection, then the
\* comparison with currentRef; any error of the detection becomes a GitError
MainDetectDefaultBranch ==
  /\ pc = "detectDefaultBranch"
  /\ \E o \in SpawnOutcomes, repo \in Repos :
       LET det      == detectDefaultBranch(loc.currentRef, repo)
           failed   == args.other = <<>> /\ (o = "spawn failed" \/ ~det.ok)
           otherRef == IF args.other # <<>> THEN args.other ELSE det.ref
       IN  IF failed THEN Finish("GitError", 2) /\ UNCHANGED loc
           ELSE IF otherRef = loc.currentRef
           THEN /\ Finish("GitError", 2)
                /\ loc' = [loc EXCEPT !.otherRef = otherRef]
           ELSE /\ loc' = [loc EXCEPT !.otherRef = otherRef]
                /\ pc' = "resolveOurs"
                /\ UNCHANGED exit
  /\ UNCHANGED <<fnVars, args, result, tempIndex, scratch, pending, hist,
                 cmdLog, report>>

\* the ref names resolveCommit may ask git about
Candidates(ref) == {ref} \cup { RemoteRef(<<r>>, ref) : r \in RemoteNames }

\* main.ts 159-160
MainResolveOurs ==
  /\ pc = "resolveOurs"
  /\ \E o \in SpawnOutcomes, rs \in RemoteLists,
        verify \in [Candidates(<<"HEAD">>) -> {<<"c1">>, <<>>}] :
       LET ours == resolveCommit(<<"HEAD">>, rs, verify)
       IN  IF o = "spawn failed" THEN Finish("Error", 2) /\ UNCHANGED loc
           ELSE IF ~ours.ok THEN Finish("GitError", 2) /\ UNCHANGED loc
           ELSE /\ loc' = [loc EXCEPT !.oursCommit = ours.commit]
                /\ pc' = "resolveTheirs"
                /\ UNCHANGED exit
  /\ UNCHANGED <<fnVars, args, result, tempIndex, scratch, pending, hist,
                 cmdLog, report>>

\* main.ts 162-172: any error of the resolution becomes a GitError
MainResolveTheirs ==
  /\ pc = "resolveTheirs"
  /\ \E o \in SpawnOutcomes, rs \in RemoteLists,
        verify \in [Candidates(loc.otherRef) -> Commits \cup {<<>>}] :
       LET theirs == resolveCommit(loc.otherRef, rs, verify)
       IN  IF o = "spawn failed" \/ ~theirs.ok
           THEN Finish("GitError", 2) /\ UNCHANGED loc
           ELSE /\ loc' = [loc EXCEPT !.theirsCommit = theirs.commit,
                                      !.otherRef = theirs.resolvedRef]
                /\ pc' = "getEmptyTreeHash"
                /\ UNCHANGED exit
  /\ UNCHANGED <<fnVars, args, result, tempIndex, scratch, pending, hist,
                 cmdLog, report>>

\* the commits git knows in a run: the two heads and a common ancestor
AllCommits == Commits \cup { <<"c0">> }

\* the names git accepts where a tree or a commit is expected
ValidObjects == AllCommits \cup { TreeOf(c) : c \in AllCommits } \cup {EMPTY_TREE}


\* main.ts 175: getEmptyTreeHash() is called and not awaited, emptyTree is
\* the Promise; it is rejected when the spawn of hash-object fails
MainGetEmptyTreeHash ==
  /\ pc = "getEmptyTreeHash"
  /\ \E o \in SpawnOutcomes, r \in {GitOk(EMPTY_TREE), GitFailed} :
       loc' = [loc EXCEPT !.emptyTree =
                 IF o = "spawn failed"
                 THEN [kind |-> "promise", state |-> "rejected", str |-> <<>>]
                 ELSE [kind |-> "promise", state |-> "fulfilled",
                       str |-> getEmptyTreeHash(r)]]
  /\ pc' = "mergeBase"
  /\ UNCHANGED <<fnVars, args, result, tempIndex, scratch, pending, exit, hist,
                 cmdLog, report>>

\* `git merge-base <ours> <theirs>`: a commit is its own merge base; two
\* commits have the common ancestor `anc`, or none
GitMergeBase(ours, theirs, anc) ==
  IF ours = theirs THEN GitOk(ours)
  ELSE IF anc = <<>> THEN RunCmdResult(1, <<>>, <<>>)
  ELSE GitOk(anc)

\* main.ts 177
MergeBaseOf(mbRes) ==
  IF mbRes.code = 0 /\ mbRes.stdout # <<>> THEN mbRes.stdout ELSE <<>>

\* main.ts 176-177.  A rejected emptyTree has no handler while main() waits
\* for merge-base: the rejection is unhandled and ends the process.
MainMergeBase ==
  /\ pc = "mergeBase"
  /\ IF loc.emptyTree.state = "rejected"
     THEN Crash /\ UNCHANGED <<loc, cmdLog>>
     ELSE \E o \in SpawnOutcomes,
             anc \in {<<>>, <<"c0">>, loc.oursCommit, loc.theirsCommit} :
            IF o = "spawn failed"
            THEN Finish("Error", 2) /\ UNCHANGED <<loc, cmdLog>>
            ELSE /\ loc' = [loc EXCEPT !.mergeBase =
                     MergeBaseOf(GitMergeBase(loc.oursCommit, loc.theirsCommit, anc))]
                 /\ cmdLog' = Append(cmdLog,
                      Logged("merge-base", <<loc.oursCommit, loc.theirsCommit>>, <<>>))
                 /\ pc' = "baseTree"
                 /\ UNCHANGED exit
  /\ UNCHANGED <<fnVars, args, result, tempIndex, scratch, pending, hist, report>>

\* `git rev-parse <rev>^{tree}`
GitRevParseTree(rev) ==
  IF rev \in AllCommits THEN GitOk(TreeOf(rev)) ELSE GitFailed

NewResultUserName(l) ==
  [built |-> TRUE, current_ref |-> l.currentRef,
   other_ref |-> IF Len(l.otherRef) > 1 THEN Tail(l.otherRef) ELSE l.otherRef,
   ours_commit |-> l.oursCommit, theirs_commit |-> l.theirsCommit,
   merge_base |-> IF l.mergeBase # <<>> THEN l.mergeBase ELSE Null,
   conflicts |-> FALSE, conflicted_files |-> <<>>, files |-> <<>>]

\* main.ts 185-194
NewResult(l) ==
  [built |-> TRUE, current_ref |-> l.currentRef, other_ref |-> l.otherRef,
   ours_commit |-> l.oursCommit, theirs_commit |-> l.theirsCommit,
   merge_base |-> IF l.mergeBase # <<>> THEN l.mergeBase ELSE Null,
   conflicts |-> FALSE, conflicted_files |-> <<>>, files |-> <<>>]

RevToTreeStepNotAwaited(rev, field, next) ==
  /\ pc' = next
  /\ UNCHANGED <<loc, cmdLog, exit>>

\* one of main.ts 180-182: loc[field] = await revToTree(rev, emptyTree)
RevToTreeStep(rev, field, next) ==
  \E o \in SpawnOutcomes :
    IF rev # <<>> /\ o = "spawn failed"
    THEN Finish("Error", 2) /\ UNCHANGED <<loc, cmdLog>>
    ELSE /\ loc' = [loc EXCEPT ![field] =
                      Await(revToTree(rev, loc.emptyTree, GitRevParseTree(rev)))]
         /\ cmdLog' = IF rev # <<>>
                      THEN Append(cmdLog, Logged("rev-parse", <<rev>>, <<>>))
                      ELSE cmdLog
         /\ pc' = next
         /\ UNCHANGED exit

MainBaseTree ==
  /\ pc = "baseTree"
  /\ RevToTreeStep(loc.mergeBase, "baseTree", "oursTree")
  /\ UNCHANGED <<fnVars, args, result, tempIndex, scratch, pending, hist, report>>

MainOursTree ==
  /\ pc = "oursTree"
  /\ RevToTreeStep(loc.oursCommit, "oursTree", "theirsTree")
  /\ UNCHANGED <<fnVars, args, result, tempIndex, scratch, pending, hist, report>>

\* main.ts 182-197: the last tree, then the result object and the handle
MainTheirsTree ==
  /\ pc = "theirsTree"
  /\ RevToTreeStep(loc.theirsCommit, "theirsTree", "create")
  /\ result' = IF pc' = "create" THEN NewResult(loc') ELSE result
  /\ tempIndex' = NewTempIndex
  /\ UNCHANGED <<fnVars, args, scratch, pending, hist, report>>

TempIndexCreatePathFirst(ti, made) == [ti EXCEPT !.path = <<"tmp">>]

\* lib.ts 378-381, given whether Deno.makeTempFile succeeds
TempIndexCreate(ti, made) == IF made THEN [ti EXCEPT !.path = <<"tmp">>] ELSE ti

\* main.ts 197-198: an error of create() leaves the try block
MainCreate ==
  /\ pc = "create"
  /\ \E made \in BOOLEAN :
       /\ tempIndex' = TempIndexCreate(tempIndex, made)
       /\ IF made
          THEN /\ scratch' = [exists |-> TRUE, valid |-> FALSE, unmerged |-> <<>>]
               /\ hist' = [hist EXCEPT !.created = TRUE]
               /\ pc' = "readTree"
               /\ UNCHANGED pending
          ELSE /\ pending' = [kind |-> "Error", code |-> 2]
               /\ pc' = "cleanup"
               /\ UNCHANGED <<scratch, hist>>
  /\ UNCHANGED <<fnVars, args, loc, result, exit, cmdLog, report>>

RunsGitWithIndexUnguarded(ti) == TRUE

\* lib.ts 398-403: whether runGitWithIndex gets as far as running git
RunsGitWithIndex(ti) == ti.path # <<>>

\* the unmerged paths a three-way read-tree leaves in the index: none when
\* two of the three trees are the same
UnmergedAfterReadTree(base, ours, theirs) ==
  IF ours = theirs \/ base = ours \/ base = theirs THEN {<<>>}
  ELSE DistinctSeqs(Paths, MaxUnmerged)

\* lib.ts 422-430: read-tree into the scratch index; an error is swallowed
MainReadTree ==
  /\ pc = "readTree"
  /\ \E o \in SpawnOutcomes, g \in {"ok", "failed"},
        um \in UnmergedAfterReadTree(loc.baseTree, loc.oursTree, loc.theirsTree) :
       /\ scratch' = IF RunsGitWithIndex(tempIndex) /\ o = "spawned" /\ g = "ok"
                     THEN [scratch EXCEPT !.valid = TRUE, !.unmerged = um]
                     ELSE scratch
       /\ cmdLog' = IF RunsGitWithIndex(tempIndex) /\ o = "spawned"
                    THEN Append(cmdLog, Logged("read-tree",
                           <<loc.baseTree, loc.oursTree, loc.theirsTree>>,
                           tempIndex.path))
                    ELSE cmdLog
  /\ pc' = "lsFiles"
  /\ UNCHANGED <<fnVars, args, loc, result, tempIndex, pending, exit, hist, report>>

\* `git ls-files -u --stage` on the scratch index
GitLsFiles(sc) ==
  IF sc.valid
  THEN RunCmdResult(0, LsFilesRaw(EntriesOf(sc.unmerged,
                                   [p \in Paths |-> Stages])), <<>>)
  ELSE GitFailed

PrimaryVerdictSeveral(unmergedFiles) == Len(unmergedFiles) > 1

\* main.ts 205: the verdict of the first strategy
PrimaryVerdict(unmergedFiles) == Len(unmergedFiles) > 0

\* lib.ts 432-434 and main.ts 205-220: list the unmerged paths; an error of
\* ls-files leaves the try block
MainLsFiles ==
  /\ pc = "lsFiles"
  /\ \E o \in SpawnOutcomes :
       IF ~RunsGitWithIndex(tempIndex) \/ o = "spawn failed"
       THEN /\ pending' = [kind |-> "Error", code |-> 2]
            /\ pc' = "cleanup"
            /\ UNCHANGED <<loc, result, cmdLog>>
       ELSE LET unmergedFiles == parseUnmergedFiles(GitLsFiles(scratch).stdout)
            IN  /\ loc' = [loc EXCEPT !.unmergedFiles = unmergedFiles, !.k = 1]
                /\ cmdLog' = Append(cmdLog, Logged("ls-files", <<>>, tempIndex.path))
                /\ IF PrimaryVerdict(unmergedFiles)
                   THEN /\ result' = [result EXCEPT !.conflicts = TRUE,
                                        !.conflicted_files = unmergedFiles]
                        /\ IF args.diff
                           THEN pc' = "primaryDetail" /\ UNCHANGED pending
                           ELSE /\ pending' = [kind |-> "returned", code |-> 1]
                                /\ pc' = "cleanup"
                   ELSE /\ pc' = "cleanup"
                        /\ UNCHANGED <<result, pending>>
  /\ UNCHANGED <<fnVars, args, tempIndex, scratch, exit, hist, report>>

\* the rename of `file` that a side can have made in a run of main()
MainRename(file) ==
  [score |-> "R100", old |-> file,
   new |-> IF file = <<"b.txt">> THEN <<"a.txt">> ELSE <<"b.txt">>]

\* the repositories in which main() classifies `file`
MainWorlds(file) ==
  { w \in Worlds(file) :
      /\ w.lookup = "ok"
      /\ Len(w.ourRen) <= 1 /\ Len(w.theirRen) <= 1
      /\ \A k \in 1..Len(w.ourRen) : w.ourRen[k] = MainRename(file)
      /\ \A k \in 1..Len(w.theirRen) : w.theirRen[k] = MainRename(file)
      /\ w.ours \in {"none", "v1"}
      /\ (w.ours = "none" => w.theirs # "none")
      /\ (w.ourRen # <<>> => w.theirRen = <<>>) }

\* the FileConflictDetail of a classification
DetailRecord(d) ==
  [conflict_type |-> d.conflict_type, message |-> d.message,
   rename |-> d.rename, diff |-> d.diff]

SetFileAlone(files, f, detail) == [p \in {f} |-> detail]

\* result.files[f] = detail
SetFile(files, f, detail) ==
  [p \in (DOMAIN files) \cup {f} |-> IF p = f THEN detail ELSE files[p]]

\* main.ts 209-218 and 278-287: one round of the loop
\*   for (const f of list) result.files[f] = await getFileConflictDetail(...)
\* where an error of a subcommand ends the loop
DetailStep(list, onError, onEnd) ==
  \E o \in SpawnOutcomes, w \in MainWorlds(list[loc.k]) :
    IF o = "spawn failed"
    THEN onError /\ UNCHANGED <<loc, result>>
    ELSE /\ result' = [result EXCEPT !.files =
              SetFile(@, list[loc.k],
                DetailRecord(getFileConflictDetail(list[loc.k], loc.mergeBase, w)))]
         /\ loc' = [loc EXCEPT !.k = @ + 1]
         /\ IF loc.k = Len(list) THEN onEnd
            ELSE UNCHANGED <<pc, pending, exit>>

\* main.ts 209-255: the details, then `return 1` from inside the try block
MainPrimaryDetail ==
  /\ pc = "primaryDetail"
  /\ DetailStep(loc.unmergedFiles,
       /\ pending' = [kind |-> "Error", code |-> 2]
       /\ pc' = "cleanup"
       /\ UNCHANGED exit,
       /\ pending' = [kind |-> "returned", code |-> 1]
       /\ pc' = "cleanup"
       /\ UNCHANGED exit)
  /\ UNCHANGED <<fnVars, args, tempIndex, scratch, hist, cmdLog, report>>

TempIndexCleanupClearsFirst(ti, removed) ==
  IF ti.path # <<>> THEN [ti EXCEPT !.path = <<>>] ELSE ti

\* lib.ts 387-396, given whether Deno.remove succeeds
TempIndexCleanup(ti, removed) ==
  IF ti.path # <<>> /\ removed THEN [ti EXCEPT !.path = <<>>] ELSE ti

\* main.ts 257-259: the finally block, then what the try block had decided
MainCleanup ==
  /\ pc = "cleanup"
  /\ \E removed \in BOOLEAN :
       /\ tempIndex' = TempIndexCleanup(tempIndex, removed)
       /\ scratch' = IF tempIndex.path # <<>> /\ removed
                     THEN [scratch EXCEPT !.exists = FALSE]
                     ELSE scratch
       /\ hist' = [hist EXCEPT !.cleanups = @ + 1,
                               !.removeFailed = @ \/ (tempIndex.path # <<>> /\ ~removed)]
  /\ IF pending.kind = "none"
     THEN pc' = "mergeTreeCheck" /\ UNCHANGED exit
     ELSE Finish(pending.kind, pending.code)
  /\ pending' = NoPending
  /\ UNCHANGED <<fnVars, args, loc, result, cmdLog, report>>

\* lib.ts 443-449 and 471-477: the arguments of `git merge-tree`
MergeTreeArgs(mergeBase, oursCommit, theirsCommit, emptyTree) ==
  <<ArgString(JsOr(mergeBase, emptyTree)), oursCommit, theirsCommit>>

\* main.ts 263 and 270: mergeBase || emptyTree
MainMergeTreeArgs ==
  MergeTreeArgs(JsOr(Str(loc.mergeBase), loc.emptyTree),
                loc.oursCommit, loc.theirsCommit, loc.emptyTree)

\* `git merge-tree <base> <ours> <theirs>` writes its report when the three
\* names are objects it knows, and fails otherwise
GitMergeTree(argv, text) ==
  IF \A k \in 1..Len(argv) : argv[k] \in ValidObjects
  THEN RunCmdResult(0, text, <<>>)
  ELSE GitFailed

\* the reports of a run; two equal commits have an empty one
MainReports(ours, theirs) ==
  IF ours = theirs THEN { <<>> }
  ELSE { ReportRaw(ls) : ls \in
           { <<>>,
             << <<"@@">> >>,
             << <<"added in remote">>, MetaLine("their", <<"b.txt">>) >>,
             << <<"removed in local">>, <<"@@">> >>,
             << <<"changed in both">>, MetaLine("base", <<"a.txt">>),
                <<"+", MARK, SP, ".our">> >>,
             << <<"changed in both">>, MetaLine("base", <<"a.txt">>),
                <<"added in remote">>, MetaLine("their", <<"my", SP, "a.txt">>) >>,
             << <<"+", MARK, SP, ".our">> >> } }

FallbackVerdictNeedsPaths(hasConflicts, conflictingFiles) ==
  hasConflicts /\ conflictingFiles # <<>>

\* main.ts 269-277: the verdict of the second strategy
FallbackVerdict(hasConflicts, conflictingFiles) == hasConflicts

\* main.ts 262-267 and 325-337: the check; without conflicts `return 0`
MainMergeTreeCheck ==
  /\ pc = "mergeTreeCheck"
  /\ \E o \in SpawnOutcomes, text \in MainReports(loc.oursCommit, loc.theirsCommit) :
       IF o = "spawn failed"
       THEN Finish("Error", 2) /\ UNCHANGED <<loc, cmdLog, report>>
       ELSE LET res == GitMergeTree(MainMergeTreeArgs, text)
                hasConflicts == checkConflictsWithMergeTree(res.stdout)
            IN  /\ report' = text
                /\ loc' = [loc EXCEPT !.hasConflicts = hasConflicts]
                /\ cmdLog' = Append(cmdLog, Logged("merge-tree", MainMergeTreeArgs, <<>>))
                /\ IF hasConflicts
                   THEN pc' = "mergeTreeFiles" /\ UNCHANGED exit
                   ELSE Finish("returned", 0)
  /\ UNCHANGED <<fnVars, args, result, tempIndex, scratch, pending, hist>>

\* main.ts 269-323: the paths, the verdict, and unless details follow `return 1`
MainMergeTreeFiles ==
  /\ pc = "mergeTreeFiles"
  /\ \E o \in SpawnOutcomes :
       IF o = "spawn failed"
       THEN Finish("Error", 2) /\ UNCHANGED <<loc, result, cmdLog>>
       ELSE LET res == GitMergeTree(MainMergeTreeArgs, report)
                conflictingFiles == getConflictingFilesFromMergeTree(res.stdout)
            IN  /\ loc' = [loc EXCEPT !.conflictingFiles = conflictingFiles, !.k = 1]
                /\ result' = [result EXCEPT
                     !.conflicts = FallbackVerdict(loc.hasConflicts, conflictingFiles),
                     !.conflicted_files = conflictingFiles]
                /\ cmdLog' = Append(cmdLog, Logged("merge-tree", MainMergeTreeArgs, <<>>))
                /\ IF args.diff /\ conflictingFiles # <<>>
                   THEN pc' = "fallbackDetail" /\ UNCHANGED exit
                   ELSE Finish("returned", 1)
  /\ UNCHANGED <<fnVars, args, tempIndex, scratch, pending, hist, report>>

\* main.ts 278-323: the details, then `return 1`
MainFallbackDetail ==
  /\ pc = "fallbackDetail"
  /\ DetailStep(loc.conflictingFiles,
       Finish("Error", 2),
       Finish("returned", 1))
  /\ UNCHANGED <<fnVars, args, tempIndex, scratch, pending, hist, cmdLog, report>>

Next ==
  \/ MainParseArgs
  \/ MainIsGitRepository
  \/ MainFetch
  \/ MainGetCurrentRef
  \/ MainDetectDefaultBranch
  \/ MainResolveOurs
  \/ MainResolveTheirs
  \/ MainGetEmptyTreeHash
  \/ MainMergeBase
  \/ MainBaseTree
  \/ MainOursTree
  \/ MainTheirsTree
  \/ MainCreate
  \/ MainReadTree
  \/ MainLsFiles
  \/ MainPrimaryDetail
  \/ MainCleanup
  \/ MainMergeTreeCheck
  \/ MainMergeTreeFiles
  \/ MainFallbackDetail

Spec == Init /\ [][Next]_vars

(***************************************************************************)
(* Properties of main()                                                    *)
(***************************************************************************)
MainDone == pc = "done"

MainReturned == pc = "done" /\ exit.how = "returned"

MainRaised == pc = "done" /\ exit.how \in {"Error", "GitError"}

\* HEAD and the other ref have been resolved
PastResolution == loc.theirsCommit # <<>>

\* C1, as stated: when main() has ended after creating the scratch index,
\* cleanup has been invoked and the backing file no longer exists.
C1_ScratchFileGone ==
  (MainDone /\ hist.created) => (hist.cleanups >= 1 /\ ~scratch.exists)

\* C1, amended: when main() has ended after creating the scratch index,
\* cleanup has been invoked exactly once, on every path; the backing file is
\* gone and the handle cleared unless the removal itself failed, in which case
\* the file remains and the handle keeps its path.
C1_CleanupOnEveryPath ==
  (MainDone /\ hist.created)
  => /\ hist.cleanups = 1
     /\ scratch.exists = hist.removeFailed
     /\ scratch.exists = (tempIndex.path # <<>>)

\* main() raised after creating the scratch index, and the file is gone
C1_Witness ==
  /\ MainRaised
  /\ hist.created
  /\ hist.cleanups = 1
  /\ ~scratch.exists

DetectionArgs ==
  { cmdLog[k].argv : k \in { j \in 1..Len(cmdLog) :
                               cmdLog[j].cmd \in {"read-tree", "merge-tree"} } }

\* C8: when merge-base found no common ancestor, merge_base is null and both
\* read-tree and merge-tree get the empty-tree id as their base, every one of
\* their arguments being the id of a tree or commit.
C8_EmptyTreeIsTheBase ==
  (result.built /\ loc.mergeBase = <<>>)
  => /\ result.merge_base = Null
     /\ \A argv \in DetectionArgs :
           /\ argv[1] = EMPTY_TREE
           /\ \A k \in 1..Len(argv) : argv[k] \in ValidObjects

C11_ErrorsExitTwo ==
  (MainDone /\ exit.how # "returned") => exit.code = 2

(***************************************************************************)
(* The ref helpers studied alone: detectDefaultBranch and resolveCommit in *)
(* repositories with up to MaxRemotes remotes                              *)
(***************************************************************************)
\* what `git remote` may list there
RefRemoteLists == DistinctSeqs({"origin", "upstream"}, MaxRemotes)

\* the repositories detectDefaultBranch is run in
DetectRepos ==
  { [remotes |-> rs, head |-> h, heads |-> hs] :
      rs \in RefRemoteLists,
      hs \in DistinctSeqs({"main", "master", "feat", "dev"}, MaxBranches),
      h \in [{"origin", "upstream"} -> {<<>>, <<"main">>, <<"dev">>}] }

InitLib ==
  /\ MainIdle
  /\ fnPc = "ready"
  /\ \/ \E cur \in {<<"main">>, <<"feat">>, <<"abc1234">>}, repo \in DetectRepos :
          fnIn = [fn |-> "detectDefaultBranch", currentRef |-> cur, repo |-> repo]
     \/ \E ref \in {<<"main">>, <<"feat">>}, rs \in RefRemoteLists :
          \E verify \in [{ref, <<"origin">> \o ref, <<"upstream">> \o ref}
                           -> Commits \cup {<<>>}] :
             fnIn = [fn |-> "resolveCommit", ref |-> ref, remotes |-> rs,
                     verify |-> verify]
     \/ fnIn = [fn |-> "TempIndex"]
  /\ fnOut = IF fnIn.fn = "TempIndex"
             THEN [ti |-> NewTempIndex, fileExists |-> FALSE, leaked |-> 0,
                   removed |-> 0, spawns |-> 0, calls |-> 0,
                   op |-> "new", outcome |-> "returned"]
             ELSE <<>>

DetectCall ==
  /\ fnPc = "ready"
  /\ fnIn.fn = "detectDefaultBranch"
  /\ fnOut' = detectDefaultBranch(fnIn.currentRef, fnIn.repo)
  /\ fnPc' = "done"
  /\ UNCHANGED <<fnIn, mainVars>>

ResolveCall ==
  /\ fnPc = "ready"
  /\ fnIn.fn = "resolveCommit"
  /\ fnOut' = resolveCommit(fnIn.ref, fnIn.remotes, fnIn.verify)
  /\ fnPc' = "done"
  /\ UNCHANGED <<fnIn, mainVars>>

\* lib.ts 375-404: one more method call on a TempIndex object.  fnOut is the
\* object and what is around it: whether the file of the last create() is
\* there, the files no handle refers to any more, successful removals, git
\* subprocesses started, and how the last call ended
TempIndexCall ==
  /\ fnPc = "ready"
  /\ fnIn.fn = "TempIndex"
  /\ fnOut.calls < MaxCalls
  /\ \/ \E made \in BOOLEAN :
          fnOut' = [fnOut EXCEPT
            !.ti = TempIndexCreate(@, made),
            !.fileExists = made \/ @,
            !.leaked = IF made /\ fnOut.fileExists THEN @ + 1 ELSE @,
            !.calls = @ + 1,
            !.op = "create",
            !.outcome = IF made THEN "returned" ELSE "makeTempFile failed"]
     \/ \E removed \in BOOLEAN :
          fnOut' = [fnOut EXCEPT
            !.ti = TempIndexCleanup(@, removed),
            !.fileExists = IF fnOut.ti.path # <<>> /\ removed THEN FALSE ELSE @,
            !.removed = IF fnOut.ti.path # <<>> /\ removed THEN @ + 1 ELSE @,
            !.calls = @ + 1,
            !.op = "cleanup",
            !.outcome = "returned"]
     \/ \E o \in SpawnOutcomes :
          fnOut' = [fnOut EXCEPT
            !.spawns = IF RunsGitWithIndex(fnOut.ti) THEN @ + 1 ELSE @,
            !.calls = @ + 1,
            !.op = "runGitWithIndex",
            !.outcome = IF ~RunsGitWithIndex(fnOut.ti)
                        THEN "Temporary index not created"
                        ELSE IF o = "spawn failed" THEN "spawn failed"
                        ELSE "returned"]
  /\ UNCHANGED <<fnPc, fnIn, mainVars>>

NextLib == DetectCall \/ ResolveCall \/ TempIndexCall

SpecLib == InitLib /\ [][NextLib]_vars

DetectDone == fnPc = "done" /\ fnIn.fn = "detectDefaultBranch"

\* C12: detectDefaultBranch returns the result of the first strategy that
\* succeeds, in this order: (a) the first remote, in listing order, that has a
\* symbolic HEAD, giving the local branch of that name if there is one and
\* else <remote>/<name>; (b) local main; (c) local master; (d) the most recent
\* local branch other than the excluded ref; it fails only when none does.
C12_StrategiesInOrder ==
  DetectDone =>
    LET rs       == fnIn.repo.remotes
        hs       == fnIn.repo.heads
        withHead == { i \in 1..Len(rs) : fnIn.repo.head[rs[i]] # <<>> }
        others   == { j \in 1..Len(hs) : <<hs[j]>> # fnIn.currentRef }
        r        == rs[SetMin(withHead)]
        b        == fnIn.repo.head[r]
    IN  IF withHead # {}
        THEN fnOut = [ok |-> TRUE,
                      ref |-> IF b[1] \in Range(hs) THEN b ELSE <<r>> \o b]
        ELSE IF "main" \in Range(hs) THEN fnOut = [ok |-> TRUE, ref |-> <<"main">>]
        ELSE IF "master" \in Range(hs)
        THEN fnOut = [ok |-> TRUE, ref |-> <<"master">>]
        ELSE IF others # {}
        THEN fnOut = [ok |-> TRUE, ref |-> <<hs[SetMin(others)]>>]
        ELSE ~fnOut.ok

\* the second of two remotes has the only HEAD, naming a branch that is not
\* local, although a local main exists: the answer is <remote>/<name>
C12_Witness ==
  /\ DetectDone
  /\ fnIn.repo.remotes = <<"origin", "upstream">>
  /\ fnIn.repo.head["origin"] = <<>>
  /\ fnIn.repo.head["upstream"] = <<"dev">>
  /\ fnIn.repo.heads = <<"master", "main">>
  /\ fnOut = [ok |-> TRUE, ref |-> <<"upstream", "dev">>]

ResolveDone == fnPc = "done" /\ fnIn.fn = "resolveCommit"

\* C13: resolveCommit(ref) returns the commit together with ref itself when
\* ref names a commit directly; otherwise it returns, for the first remote in
\* listing order whose <remote>/<ref> names a commit, that commit together with
\* the rewritten name <remote>/<ref>; it fails exactly when neither ref nor any
\* <remote>/<ref> names a commit.
C13_DirectThenRemotes ==
  ResolveDone =>
    LET ref  == fnIn.ref
        rs   == fnIn.remotes
        hits == { i \in 1..Len(rs) : fnIn.verify[<<rs[i]>> \o ref] # <<>> }
        cand == <<rs[SetMin(hits)]>> \o ref
    IN  /\ fnIn.verify[ref] # <<>> =>
             fnOut = [ok |-> TRUE, commit |-> fnIn.verify[ref],
                      resolvedRef |-> ref]
        /\ (fnIn.verify[ref] = <<>> /\ hits # {}) =>
             fnOut = [ok |-> TRUE, commit |-> fnIn.verify[cand],
                      resolvedRef |-> cand]
        /\ ~fnOut.ok <=> (fnIn.verify[ref] = <<>> /\ hits = {})

\* the ref is no commit by itself, the first listed remote does not have it
\* and the second one does
C13_Witness ==
  /\ ResolveDone
  /\ fnIn.ref = <<"feat">>
  /\ fnIn.remotes = <<"upstream", "origin">>
  /\ fnIn.verify[<<"feat">>] = <<>>
  /\ fnIn.verify[<<"upstream", "feat">>] = <<>>
  /\ fnIn.verify[<<"origin", "feat">>] = <<"c2">>
  /\ fnOut = [ok |-> TRUE, commit |-> <<"c2">>,
              resolvedRef |-> <<"origin", "feat">>]

(***************************************************************************)
(* What the subcommands of a run write                                     *)
(***************************************************************************)
\* the storage a logged git subcommand writes: `fetch --all` (lib.ts 553)
\* updates the remote-tracking refs, `read-tree -m` (lib.ts 423-430) writes
\* the index it is bound to, which is the repository's real index when no
\* GIT_INDEX_FILE is given (lib.ts 402); the other subcommands only read
StorageWritten(call) ==
  IF call.cmd = "fetch" THEN {"refs"}
  ELSE IF call.cmd = "read-tree"
  THEN {IF call.index = <<>> THEN "real index" ELSE "scratch index"}
  ELSE {}

\* C14: no step of a run, an optional --fetch included, writes a ref, the
\* real index or a working-tree file: every subcommand writes at most the
\* scratch index, and read-tree and ls-files, which are issued through
\* runGitWithIndex, are bound to the scratch index of the run.
C14_OnlyScratchIndexWritten ==
  \A k \in 1..Len(cmdLog) :
     /\ StorageWritten(cmdLog[k]) \subseteq {"scratch index"}
     /\ cmdLog[k].cmd \in {"read-tree", "ls-files"}
          => (hist.created /\ cmdLog[k].index = <<"tmp">>)

\* a step of the TempIndex object that is a call of the method `op`
TempIndexStep(op) ==
  /\ fnIn.fn = "TempIndex"
  /\ fnOut'.calls = fnOut.calls + 1
  /\ fnOut'.op = op

\* C15: a call of runGitWithIndex on a handle that holds no path - before
\* any create() and also after a successful cleanup() - ends with the error
\* 'Temporary index not created' and starts no subprocess.
C15_NoPathNoSpawn ==
  [][ (TempIndexStep("runGitWithIndex") /\ fnOut.ti.path = <<>>)
        => /\ fnOut'.outcome = "Temporary index not created"
           /\ fnOut'.spawns = fnOut.spawns ]_vars

\* runGitWithIndex refused after the index was created and cleaned up
C15_Witness ==
  /\ fnIn.fn = "TempIndex"
  /\ fnOut.op = "runGitWithIndex"
  /\ fnOut.outcome = "Temporary index not created"
  /\ fnOut.removed = 1
  /\ fnOut.spawns = 0

\* C16: cleanup never throws, a failing removal included; a cleanup that
\* leaves the handle without a path leaves the file absent, one whose removal
\* failed changes nothing, and a cleanup of a handle without a path - any
\* further cleanup after the first successful one - changes nothing at all.
C16_CleanupIdempotent ==
  [][ TempIndexStep("cleanup")
        => /\ fnOut'.outcome = "returned"
           /\ fnOut'.ti.path = <<>> => ~fnOut'.fileExists
           /\ fnOut'.ti.path # <<>> =>
                (fnOut'.ti = fnOut.ti /\ fnOut'.fileExists = fnOut.fileExists)
           /\ fnOut.ti.path = <<>> =>
                /\ fnOut'.ti = fnOut.ti
                /\ fnOut'.fileExists = fnOut.fileExists
                /\ fnOut'.leaked = fnOut.leaked
                /\ fnOut'.removed = fnOut.removed ]_vars

\* a removal failed, the next cleanup succeeded, and one more cleanup was
\* called after it
C16_Witness ==
  /\ fnIn.fn = "TempIndex"
  /\ fnOut.calls = 4
  /\ fnOut.op = "cleanup"
  /\ fnOut.removed = 1
  /\ fnOut.ti.path = <<>>
  /\ ~fnOut.fileExists

\* the paths of result.files whose detail has no diff
AbsentDiffs == { p \in DOMAIN result.files : result.files[p].diff = <<>> }

\* C17, as stated: a path whose diff is absent still has a record, of
\* conflict_type content, it is in conflicted_files, conflicts is true and a
\* run that returns exits with 1.
C17_AbsentDiffIsContent ==
  \A p \in AbsentDiffs :
     /\ result.files[p].conflict_type = "content"
     /\ p \in Range(result.conflicted_files)
     /\ result.conflicts
     /\ MainReturned => exit.code = 1

\* C17, amended: the record of a path whose diff is absent has conflict_type
\* content or, when a rename of the path was found, the rename type - never a
\* delete type; the path is in conflicted_files, conflicts is true and a run
\* that returns exits with 1.
C17_AbsentDiffStaysConflicting ==
  \A p \in AbsentDiffs :
     /\ result.files[p].conflict_type \in
          IF result.files[p].rename = NoRename THEN {"content"}
          ELSE {"rename_modify", "modify_rename"}
     /\ p \in Range(result.conflicted_files)
     /\ result.conflicts
     /\ MainReturned => exit.code = 1

\* a run returned 1 with a content record without diff
C17_Witness ==
  /\ MainReturned
  /\ exit.code = 1
  /\ \E p \in AbsentDiffs : result.files[p].conflict_type = "content"

\* C18: result.files has entries only when --diff was given: without --diff
\* it is empty in every state of the run; with --diff, in a run that returns
\* with conflicts found, its keys are exactly the paths of conflicted_files,
\* each with one detail record.
C18_FilesOnlyWithDiff ==
  /\ ~args.diff => DOMAIN result.files = {}
  /\ (MainReturned /\ args.diff /\ result.conflicts)
       => /\ DOMAIN result.files = Range(result.conflicted_files)
          /\ \A p \in DOMAIN result.files :
                result.files[p].conflict_type \in
                  {"content", "delete_modify", "modify_delete",
                   "rename_modify", "modify_rename"}

\* a run with --diff returned with two conflicting paths and their records
C18_Witness ==
  /\ MainReturned
  /\ args.diff
  /\ result.conflicts
  /\ Len(result.conflicted_files) = 2
  /\ Cardinality(DOMAIN result.files) = 2

\* C19: a record returned by getFileConflictDetail has a rename exactly when
\* its conflict_type is rename_modify or modify_rename, and the old_path of
\* that rename is the candidate path.
C19_RenameIffRenameType ==
  DetailDone =>
    /\ fnOut.rename # NoRename
         <=> fnOut.conflict_type \in {"rename_modify", "modify_rename"}
    /\ fnOut.rename # NoRename => fnOut.rename[1].old_path = fnIn.file

\* their side renamed the candidate path while our side lists the rename of
\* another path
C19_Witness ==
  /\ DetailDone
  /\ fnOut.conflict_type = "modify_rename"
  /\ fnOut.rename # NoRename
  /\ fnOut.rename[1].old_path = fnIn.file
  /\ fnIn.w.ourRen # <<>>

\* the subcommands of the log that are `cmd`
Issued(cmd) == { k \in 1..Len(cmdLog) : cmdLog[k].cmd = cmd }

\* the run is in, or has been through, the second strategy
FallbackConsulted ==
  \/ pc \in {"mergeTreeCheck", "mergeTreeFiles", "fallbackDetail"}
  \/ Issued("merge-tree") # {}

\* C20: once the first strategy (read-tree) has returned at least one
\* unmerged path the second strategy (merge-tree) is never consulted; it is
\* consulted only after the first strategy returned, with an empty list.
C20_ShortCircuit ==
  /\ loc.unmergedFiles # <<>> => ~FallbackConsulted
  /\ FallbackConsulted
       => /\ loc.unmergedFiles = <<>>
          /\ Issued("ls-files") # {}
          /\ \A k \in Issued("merge-tree"), j \in Issued("ls-files") : j < k

\* a run that found unmerged paths by read-tree returned 1 with no merge-tree
\* ever issued
C20_Witness ==
  /\ MainReturned
  /\ exit.code = 1
  /\ loc.unmergedFiles # <<>>
  /\ Issued("ls-files") # {}
  /\ Issued("merge-tree") = {}

\* the run is in, or has been through, the resolution of the trees
TreesStarted ==
  \/ pc \in {"baseTree", "oursTree", "theirsTree"}
  \/ Issued("rev-parse") # {}

\* the run is in, or has been through, the first strategy
PrimaryStarted ==
  \/ pc \in {"create", "readTree", "lsFiles", "primaryDetail", "cleanup"}
  \/ hist.created
  \/ hist.cleanups > 0
  \/ Issued("read-tree") \cup Issued("ls-files") # {}

ReadTreeFailed ==
  /\ hist.created
  /\ ~scratch.valid
  /\ pc \notin {"readTree", "lsFiles"}

\* C22, as stated: after a failed read-tree checkConflictsWithReadTree does
\* not raise and reports no unmerged path, main() goes on to merge-tree, and
\* the verdict of merge-tree alone is result.conflicts.
C22_ReadTreeFailureFallsThrough ==
  ReadTreeFailed
  => /\ Issued("ls-files") # {}
     /\ pending.kind # "Error"
     /\ loc.unmergedFiles = <<>>
     /\ MainReturned => (FallbackConsulted /\ result.conflicts = loc.hasConflicts)

\* C22, amended: a failed read-tree is never what raises, and no unmerged
\* path is reported after it; when ls-files then runs, main() goes on to
\* merge-tree with nothing pending and the verdict of merge-tree alone is
\* result.conflicts and the return code; when ls-files cannot be started,
\* that error leaves the try block and the run ends with exit code 2.
C22_ReadTreeFailureSwallowed ==
  ReadTreeFailed
  => /\ loc.unmergedFiles = <<>>
     /\ Issued("ls-files") # {}
          => /\ pending = NoPending
             /\ pc = "cleanup" \/ FallbackConsulted \/ MainDone
             /\ MainReturned
                  => /\ FallbackConsulted
                     /\ result.conflicts = loc.hasConflicts
                     /\ exit.code = IF loc.hasConflicts THEN 1 ELSE 0
     /\ Issued("ls-files") = {}
          => /\ ~FallbackConsulted
             /\ MainDone => (exit.how = "Error" /\ exit.code = 2)

\* read-tree failed, merge-tree found conflicts, main() returned 1
C22_Witness ==
  /\ ReadTreeFailed
  /\ MainReturned
  /\ Issued("ls-files") # {}
  /\ Cardinality(Issued("merge-tree")) = 2
  /\ loc.hasConflicts
  /\ result.conflicts
  /\ exit.code = 1

(***************************************************************************)
(* Properties of the report parser                                         *)
(***************************************************************************)
ParserDone == fnPc = "done" /\ fnIn.fn = "mergeTree"

\* the lines of the report, as the parser splits them
ReportLines == SplitLines(fnIn.stdout)

BeginsWith(line, toks) == line # <<>> /\ line[1] \in toks

IsMarkerLine(line) == Len(line) >= 2 /\ line[1] = MARK /\ line[2] = SP

Mentions(line, toks) == \E k \in 1..Len(line) : line[k] \in toks

\* a structural header with, below it, a line that names a side and a mode
HeaderWithMetadata(lines) ==
  \E i, j \in 1..Len(lines) :
     /\ i < j
     /\ BeginsWith(lines[i], HeaderToks)
     /\ Mentions(lines[j], SideToks) /\ Mentions(lines[j], DigitToks)

\* a merged/result line with a mode and, below it, a marker line
MergedWithMarker(lines) ==
  \E i, j \in 1..Len(lines) :
     /\ i < j
     /\ BeginsWith(lines[i], {"merged", "result"})
     /\ Mentions(lines[i], DigitToks)
     /\ IsMarkerLine(lines[j])

\* C23: for every report text the parser ends with a list of paths, and a
\* report without a header-and-metadata structure and without a
\* merged/result-and-marker structure gives the empty list.
C23_MalformedGivesEmptyList ==
  ParserDone =>
    /\ Len(fnOut.files) <= Len(ReportLines)
    /\ \A k \in 1..Len(fnOut.files) : fnOut.files[k] # <<>>
    /\ (~HeaderWithMetadata(ReportLines) /\ ~MergedWithMarker(ReportLines))
         => fnOut.files = <<>>

\* a header without metadata, a result line without mode and a marker: no path
C23_Witness ==
  /\ ParserDone
  /\ Len(ReportLines) = 3
  /\ BeginsWith(ReportLines[1], HeaderToks)
  /\ ReportLines[2] = <<"result", SP, "b.txt">>
  /\ IsMarkerLine(ReportLines[3])
  /\ fnOut.files = <<>>

\* the path p is named by a metadata line at most three lines below a
\* structural header
NamedUnderHeader(lines, p) ==
  \E i, j \in 1..Len(lines) :
     /\ i < j /\ j <= i + 3
     /\ BeginsWith(lines[i], HeaderToks)
     /\ MetaMatch(lines[j]).ok
     /\ MetaMatch(lines[j]).name = p

\* the path p is named by a merged/result line with a marker line at most
\* nineteen lines below it and no line that begins a section in between
NamedWithMarker(lines, p) ==
  \E i, j \in 1..Len(lines) :
     /\ i < j /\ j <= i + 19
     /\ MergedMatch(lines[i]).ok
     /\ MergedMatch(lines[i]).name = p
     /\ IsMarkerLine(lines[j])
     /\ \A k \in (i + 1)..(j - 1) : ~BeginsWith(lines[k], SectionToks)

\* C24: both forward scans are bounded: a path is in the list only if a
\* metadata line names it within the three lines after a structural header,
\* or a merged/result line names it and a marker line follows within the next
\* nineteen lines, before any line that begins a new section; and every path
\* named in one of these two ways is in the list.
C24_ScansAreBounded ==
  ParserDone =>
    /\ \A k \in 1..Len(fnOut.files) :
          \/ NamedUnderHeader(ReportLines, fnOut.files[k])
          \/ NamedWithMarker(ReportLines, fnOut.files[k])
    /\ \A p \in {<<"a.txt">>, <<"b.txt">>, <<"my", SP, "a.txt">>} :
          (NamedUnderHeader(ReportLines, p) \/ NamedWithMarker(ReportLines, p))
            => p \in Range(fnOut.files)

\* the marker comes twenty lines after the merged line: no path
C24_Witness ==
  /\ ParserDone
  /\ Len(ReportLines) = 21
  /\ MergedMatch(ReportLines[1]).ok
  /\ IsMarkerLine(ReportLines[21])
  /\ fnOut.files = <<>>

\* the first line of the report on which a metadata line or a merged/result
\* line names the path p
FirstOccurrence(lines, p) ==
  SetMin({ i \in 1..Len(lines) :
             \/ MetaMatch(lines[i]).ok /\ MetaMatch(lines[i]).name = p
             \/ MergedMatch(lines[i]).ok /\ MergedMatch(lines[i]).name = p })

\* what leads the parser to p: <<i, j>> for a header at line i and a metadata
\* line j in its window, <<i, 0>> for a merged/result line i with a marker in
\* its window
Leads(lines, p) ==
  { ij \in (1..Len(lines)) \X (1..Len(lines)) :
      /\ ij[1] < ij[2] /\ ij[2] <= ij[1] + 3
      /\ BeginsWith(lines[ij[1]], HeaderToks)
      /\ MetaMatch(lines[ij[2]]).ok
      /\ MetaMatch(lines[ij[2]]).name = p }
  \cup
  { <<i, 0>> : i \in { h \in 1..Len(lines) :
      /\ MergedMatch(lines[h]).ok
      /\ MergedMatch(lines[h]).name = p
      /\ \E j \in (h + 1)..Min(h + 19, Len(lines)) :
            /\ IsMarkerLine(lines[j])
            /\ \A k \in (h + 1)..(j - 1) : ~BeginsWith(lines[k], SectionToks) } }

\* the moment the parser records p: the outer loop is at line i, the inner
\* one at line j
RecordedAt(lines, p) == SetMin({ ij[1] * 100 + ij[2] : ij \in Leads(lines, p) })

NoPathTwice(files) ==
  \A a, b \in 1..Len(files) : a # b => files[a] # files[b]

\* C25, as stated: the list never holds a path twice, and its paths are in
\* the order of their first occurrence in the report.
C25_OnceInReportOrder ==
  ParserDone =>
    /\ NoPathTwice(fnOut.files)
    /\ \A a, b \in 1..Len(fnOut.files) :
          a < b => FirstOccurrence(ReportLines, fnOut.files[a])
                     < FirstOccurrence(ReportLines, fnOut.files[b])

\* C25, amended: the list never holds a path twice, and its paths are in the
\* order in which the parser comes to them: by the section line that leads to
\* the path and, under one header, by the metadata line.
C25_OnceInRecordingOrder ==
  ParserDone =>
    /\ NoPathTwice(fnOut.files)
    /\ \A a, b \in 1..Len(fnOut.files) :
          a < b => RecordedAt(ReportLines, fnOut.files[a])
                     < RecordedAt(ReportLines, fnOut.files[b])

\* two metadata lines of one header name the same path: one entry
C25_Witness ==
  /\ ParserDone
  /\ Len(ReportLines) = 3
  /\ BeginsWith(ReportLines[1], HeaderToks)
  /\ ReportLines[2] = ReportLines[3]
  /\ MetaMatch(ReportLines[2]).ok
  /\ Len(fnOut.files) = 1

\* the subcommands a call of getFileConflictDetail has issued
DetailCmds == { fnOut.calls[k].cmd : k \in 1..Len(fnOut.calls) }

\* C26: for every candidate path getFileConflictDetail ends with one record
\* whose conflict_type is one of the five; the plain diff that decides
\* between content and the delete types is made exactly when no rename
\* classification was made; and when the rename lookups fail, the function
\* does not abort: it goes on to the plain diff.
C26_OneRecordPerPath ==
  DetailDone =>
    /\ ~fnOut.raised
    /\ fnOut.conflict_type \in {"content", "rename_modify", "modify_rename",
                                "delete_modify", "modify_delete"}
    /\ ("diff" \in DetailCmds) = (fnOut.rename = NoRename)
    /\ ("blobdiff" \in DetailCmds) = (fnOut.rename # NoRename)
    /\ fnOut.rename = NoRename
         => fnOut.conflict_type \in {"content", "delete_modify", "modify_delete"}
    /\ (fnIn.mergeBase # <<>> /\ fnIn.w.lookup # "ok")
         => (fnOut.rename = NoRename /\ "diff" \in DetailCmds)

\* C27: other_ref of the result is the name resolveCommit returned: the
\* given or detected name, or <remote>/<name> when resolveCommit rewrote it;
\* and the same-ref test was made on the name as it was before resolution,
\* before any commit was resolved.
C27_OtherRefIsResolvedName ==
  /\ result.built
       => /\ result.other_ref = loc.otherRef
          /\ args.other # <<>> => result.other_ref \in Candidates(args.other)
  /\ pc \in {"resolveOurs", "resolveTheirs"}
       => /\ loc.otherRef # loc.currentRef
          /\ loc.theirsCommit = <<>>
          /\ args.other # <<>> => loc.otherRef = args.other
  /\ pc = "resolveOurs" => loc.oursCommit = <<>>
  /\ (loc.oursCommit # <<>> /\ args.other # <<>>) => args.other # loc.currentRef

\* the user gave feat, only origin/feat is a commit, and the result says
\* origin/feat
C27_Witness ==
  /\ result.built
  /\ args.other = <<"feat">>
  /\ result.other_ref = <<"origin", "feat">>

\* C28: for every report, when the parser returns at least one path the
\* check returns true on the same text: a path is recorded only under a
\* structural header line or for a marker at the start of a line, and each
\* of the two makes the check true.  The converse fails: the state
\* C28_ConverseFails (true check, empty list) is reachable.
C28_PathsImplyConflicts ==
  ParserDone =>
    /\ fnOut.files # <<>> => fnOut.conflicts
    /\ \A k \in 1..Len(fnOut.files) :
          \/ /\ NamedUnderHeader(ReportLines, fnOut.files[k])
             /\ HasStructuralLine(fnIn.stdout)
          \/ /\ NamedWithMarker(ReportLines, fnOut.files[k])
             /\ HasMarkerAnywhere(fnIn.stdout)

\* a path found under a structural header, in a report without any marker
C28_Witness ==
  /\ ParserDone
  /\ fnOut.files # <<>>
  /\ fnOut.conflicts
  /\ ~HasMarkerAnywhere(fnIn.stdout)

\* a structural header without a metadata line in the window: true, no path
C28_ConverseFails ==
  /\ ParserDone
  /\ fnOut.conflicts
  /\ fnOut.files = <<>>

\* the name the strategies before the last one give in a repository: the
\* branch of the first remote HEAD, local main, local master; <<>> when none
EarlyChoice(repo) ==
  LET rs       == repo.remotes
      hs       == repo.heads
      withHead == { i \in 1..Len(rs) : repo.head[rs[i]] # <<>> }
      r        == rs[SetMin(withHead)]
      b        == repo.head[r]
  IN  IF withHead # {}
      THEN IF b[1] \in Range(hs) THEN b ELSE <<r>> \o b
      ELSE IF "main" \in Range(hs) THEN <<"main">>
      ELSE IF "master" \in Range(hs) THEN <<"master">>
      ELSE <<>>

\* C29: detectDefaultBranch excludes the current ref only in its last
\* strategy.  When a remote HEAD, local main or local master exists, that
\* name is the answer whatever the other branches are, also when it is the
\* excluded ref; only an answer of the last strategy always differs from
\* it.  When the detected name is the current ref, main() ends with the
\* same-ref error, exit code 2, before any commit is resolved.
C29_ExclusionOnlyInLastStrategy ==
  /\ pc = "detectDefaultBranch"
       => \A cur \in {loc.currentRef, <<"feat">>}, repo \in Repos \cup DetectRepos :
            LET det == detectDefaultBranch(cur, repo)
            IN  IF EarlyChoice(repo) # <<>>
                THEN det = [ok |-> TRUE, ref |-> EarlyChoice(repo)]
                ELSE det.ok => /\ det.ref # cur
                               /\ det.ref[1] \in Range(repo.heads)
  /\ (loc.otherRef # <<>> /\ loc.otherRef = loc.currentRef)
       => /\ pc = "done"
          /\ exit = [how |-> "GitError", code |-> 2]
          /\ loc.oursCommit = <<>> /\ loc.theirsCommit = <<>>
          /\ ~result.built
          /\ Issued("read-tree") = {} /\ Issued("merge-tree") = {}

\* no branch was given, the detection answered with the current branch, and
\* main() has ended with the same-ref error
C29_Witness ==
  /\ pc = "done"
  /\ args.other = <<>>
  /\ loc.currentRef = <<"main">>
  /\ loc.otherRef = <<"main">>
  /\ exit = [how |-> "GitError", code |-> 2]

\* the step issues a subcommand that is bound to the scratch index
IssuesOnScratchIndex ==
  /\ Len(cmdLog') = Len(cmdLog) + 1
  /\ cmdLog'[Len(cmdLog')].cmd \in {"read-tree", "ls-files"}

\* C30: in every run of main(), a subcommand bound to the scratch index is
\* issued only after create() has succeeded and before cleanup() is called,
\* on the file the handle then names, which exists; the handle names a file
\* exactly while that file exists, a file is made at most once in a run and
\* cleanup() is called at most once, after which no such subcommand follows.
C30_NoUseAfterRelease ==
  /\ [](/\ (tempIndex.path # <<>>) = scratch.exists
        /\ scratch.exists => hist.created
        /\ hist.cleanups <= 1
        /\ \A k \in Issued("read-tree") \cup Issued("ls-files") :
              hist.created /\ cmdLog[k].index = <<"tmp">>)
  /\ [][/\ IssuesOnScratchIndex
             => /\ hist.created /\ hist.cleanups = 0
                /\ hist'.cleanups = 0
                /\ scratch.exists /\ scratch'.exists
                /\ tempIndex.path # <<>>
                /\ cmdLog'[Len(cmdLog')].index = tempIndex.path
        /\ (scratch'.exists /\ ~scratch.exists)
             => (~hist.created /\ hist.cleanups = 0 /\ pc = "create")
        /\ hist'.cleanups # hist.cleanups
             => (pc = "cleanup" /\ hist.cleanups = 0)]_vars

\* read-tree and ls-files have run on the scratch index, and cleanup() has
\* removed it
C30_Witness ==
  /\ Issued("read-tree") # {}
  /\ Issued("ls-files") # {}
  /\ hist.created
  /\ hist.cleanups = 1
  /\ ~scratch.exists
  /\ tempIndex.path = <<>>

=============================================================================
